---------------------------- MODULE Spec2Model ----------------------------
(***************************************************************************)
(* Model of the ntdsforensics schema resolver and attribute decoders.      *)
(*                                                                         *)
(* The data table is a sequence of rows in table order.  A row is either   *)
(* unreadable (the row iterator yields Err) or carries typed cells.  Each  *)
(* resolver / decoder is an operator computed the way the Rust code        *)
(* computes it; an action applies it to the current input and records the  *)
(* outcome: "ok" (a value is returned), "err" (an error value is returned  *)
(* to the caller) or "panic" (unwrap/expect aborts the process).           *)
(***************************************************************************)
EXTENDS Integers, Sequences, FiniteSets, TLC

VARIABLES
    table,          \* rows of the data table, in table order
    anchorRes,      \* outcome of DataTableExt::get_schema_record_id
    mainRes,        \* outcome of the schema record scan of main()
    columns,        \* column listing of the data table: names by column index
    colRes,         \* outcome of the ColumnInfoMapping construction of main()
    schema_record_id,  \* DataTableExt / DataTable field: the anchor's record id
    typeRuns,       \* the type resolutions run so far: [fn, req, res]
    sidSrc,         \* the security identifier the SID cell was written from
    sidCell,        \* the SID cell (ATTr589970) of a record
    overflow_checks,   \* build profile: integer overflow checks compiled in
    sidRes,         \* outcome of the SID getter
    tickCell,       \* a timestamp cell (e.g. ATTq589876, last logon) of a record
    timeRes,        \* outcome of the datetime getter
    decGetter,      \* the getter a cell is handed to
    decFound,       \* whether the record yields a cell for the attribute
    decCell,        \* that cell
    decRes,         \* outcome of that getter
    listReq,        \* the typed listing asked for: [fn, type]
    listRes,        \* outcome of that listing
    entryReq,       \* the entry show_entry is asked for: [by, n]
    entryRes,       \* outcome of show_entry
    searchReq,      \* the search asked for: [valid, matches] and the seed of the run's hasher
    searchRes,      \* outcome of search_entries
    timelineReq,    \* the export asked for: function, modes, hasher seed
    timelineRes,    \* outcome of show_timeline
    sdBuilt,        \* outcome of SdTable::new: the descriptors map, or the abort
    sdReq,          \* the descriptor id asked for
    sdRes,          \* outcome of SdTable::descriptor
    object_tree,    \* DataTable.object_tree: the children of each record id
    link_table,     \* DataTable.link_table: the links between records
    schema,         \* DataTable.schema: the type definitions found under the anchor
    firstReq,       \* the first query asked of the wrapper
    firstRes,       \* the answer to the first query
    lastReq,        \* the latest query asked of the wrapper
    lastRes         \* the answer to the latest query

anchorVars == <<anchorRes, mainRes>>
colVars    == <<columns, colRes>>
typeVars   == <<schema_record_id, typeRuns>>
sidVars    == <<sidSrc, sidCell, overflow_checks, sidRes>>

timeVars   == <<tickCell, timeRes>>

decVars    == <<decGetter, decFound, decCell, decRes>>
listVars   == <<listReq, listRes>>
entryVars  == <<entryReq, entryRes>>
searchVars == <<searchReq, searchRes>>
timelineVars == <<timelineReq, timelineRes>>
sdVars     == <<sdBuilt, sdReq, sdRes>>
queriesVars == <<object_tree, link_table, schema, firstReq, firstRes, lastReq,
                lastRes>>

vars == <<table, anchorVars, colVars, typeVars, sidVars, timeVars, decVars,
         listVars, entryVars, searchVars, timelineVars, sdVars, queriesVars>>

-----------------------------------------------------------------------------
(* Bounds *)

MaxRecords == 3
MaxExtraColumns == 2
MaxTypeRows == 2
MaxRuns == 2
MaxSeed == 1
MaxSubAuthorities == 2
MaxSmallTick == 10
MaxObjects == 2

\* the seeds a run's hasher (std RandomState) may draw
HashSeeds == 0..MaxSeed

-----------------------------------------------------------------------------
(* libesedb::Value cells.  v is the payload of the variants that carry one. *)

TextCell(s)      == [variant |-> "Text", v |-> s]
LargeTextCell(s) == [variant |-> "LargeText", v |-> s]
NullText         == [variant |-> "Null", v |-> ""]
\* a cell of a variant the string getter does not accept (e.g. Value::I32)
BadText          == [variant |-> "I32", v |-> ""]

I32Cell(n)       == [variant |-> "I32", v |-> n]
NullInt          == [variant |-> "Null", v |-> 0]
\* a cell of a variant the i32 getter does not accept (e.g. Value::Text)
BadInt           == [variant |-> "Text", v |-> 0]

-----------------------------------------------------------------------------
(* Outcomes *)

NotRun       == [kind |-> "idle",  some |-> FALSE, v |-> 0, why |-> ""]
OkSome(x)    == [kind |-> "ok",    some |-> TRUE,  v |-> x, why |-> ""]
OkNone       == [kind |-> "ok",    some |-> FALSE, v |-> 0, why |-> ""]
Err(e)       == [kind |-> "err",   some |-> FALSE, v |-> 0, why |-> e]
Panic(m)     == [kind |-> "panic", some |-> FALSE, v |-> 0, why |-> m]

OkText(s)    == [kind |-> "ok",    some |-> TRUE,  v |-> s,  why |-> ""]
OkNoText     == [kind |-> "ok",    some |-> FALSE, v |-> "", why |-> ""]
ErrText(e)   == [kind |-> "err",   some |-> FALSE, v |-> "", why |-> e]
NotRunText   == [kind |-> "idle",  some |-> FALSE, v |-> "", why |-> ""]

-----------------------------------------------------------------------------
(* dbrecord.rs: the macro-generated typed getters *)

\* define_i32_getter: Value::I32 -> Some, Value::Null -> None, else error
define_i32_getter(cell) ==
    CASE cell.variant = "I32"  -> OkSome(cell.v)
      [] cell.variant = "Null" -> OkNone
      [] OTHER                 -> Err("InvalidValueDetected")

\* define_str_getter: Text | LargeText -> Some, Null -> None, else error
define_str_getter(cell) ==
    CASE cell.variant \in {"Text", "LargeText"} -> OkText(cell.v)
      [] cell.variant = "Null"                  -> OkNoText
      [] OTHER                                  -> ErrText("InvalidValueDetected")

ds_record_id_index(rec)        == define_i32_getter(rec.id)
ds_parent_record_id_index(rec) == define_i32_getter(rec.parent)
ds_object_name2_index(rec)     == define_str_getter(rec.name2)

-----------------------------------------------------------------------------
(* Rows *)

Row(ok, id, parent, name2) ==
    [readable |-> ok, id |-> id, parent |-> parent, name2 |-> name2]

\* rows visited in an order that follows the hasher's seed
HashOrder(tbl, seed) ==
    [k \in 1..Len(tbl) |-> IF seed % 2 = 0 THEN k ELSE Len(tbl) + 1 - k]

\* data_table.iter_records(): the rows are visited in table order; the seed
\* of the run's hasher (HashSet / HashMap RandomState) has no part in it
IterRecords(tbl, seed) == [k \in 1..Len(tbl) |-> k]

\* iter_records()?.filter_map(|r| r.ok()): the rows the iterator could
\* read, in the order it visits them
ReadableRows(tbl, seed) ==
    SelectSeq([k \in 1..Len(tbl) |-> tbl[IterRecords(tbl, seed)[k]]],
              LAMBDA r : r.readable)

Range(seq) == {seq[i] : i \in 1..Len(seq)}

\* the record id stored in the row at table position i
IdAt(i) == 100 + i

-----------------------------------------------------------------------------
(* data_table_ext.rs: DataTableExt::get_schema_record_id *)

\* the closure handed to .find(): compares "Schema" with the row's
\* object_name2; both .expect() calls abort the process
SchemaPredicate(rec) ==
    LET n == ds_object_name2_index(rec) IN
    CASE n.kind = "err" -> Panic("unable to read object_name2 attribute")
      [] ~n.some        -> Panic("missing object_name2 attribute")
      [] OTHER          -> [kind |-> "ok", some |-> (n.v = "Schema"),
                            v |-> 0, why |-> ""]

\* a scan that keeps the last row the predicate accepts instead of the first
RECURSIVE FindLastSchema(_, _, _)
FindLastSchema(recs, i, best) ==
    IF i > Len(recs) THEN best
    ELSE LET p == SchemaPredicate(recs[i]) IN
         IF p.kind = "panic" THEN -1
         ELSE FindLastSchema(recs, i + 1, IF p.some THEN i ELSE best)

\* .find(): position in recs of the first row the predicate accepts, from
\* position i on; best (0) when the iterator is exhausted, -1 when the
\* closure panics
RECURSIVE FindSchema(_, _, _)
FindSchema(recs, i, best) ==
    IF i > Len(recs) THEN best
    ELSE LET p == SchemaPredicate(recs[i]) IN
         IF p.kind = "panic" THEN -1
         ELSE IF p.some THEN i
         ELSE FindSchema(recs, i + 1, best)

\* the panic the closure raised
RECURSIVE FindPanic(_, _)
FindPanic(recs, i) ==
    LET p == SchemaPredicate(recs[i]) IN
    IF p.kind = "panic" THEN p ELSE FindPanic(recs, i + 1)

get_schema_record_id(tbl, seed) ==
    LET recs == ReadableRows(tbl, seed)
        at   == FindSchema(recs, 1, 0)
    IN  IF at = -1 THEN FindPanic(recs, 1)
        ELSE IF at = 0 THEN Panic("no schema record found")
        ELSE LET id == ds_record_id_index(recs[at]) IN
             CASE id.kind = "err" -> id
               [] ~id.some        -> Panic("Schema record has no record ID")
               [] OTHER           -> OkSome(id.v)

-----------------------------------------------------------------------------
(* main.rs: the schema record scan of main() *)

\* the for loop over iter_records(): a row that cannot be read ends the
\* loop, `?` returns the getter's error, expect/unwrap abort the process,
\* the first "Schema" row is kept and ends the loop.  The result is the
\* loop's exit: [kind, at] with kind "found" | "none" | "err" | "panic"
RECURSIVE MainScan(_, _)
MainScan(tbl, i) ==
    IF i > Len(tbl) THEN [kind |-> "none", at |-> 0, why |-> ""]
    ELSE IF ~tbl[i].readable THEN [kind |-> "none", at |-> 0, why |-> ""]
    ELSE LET n == ds_object_name2_index(tbl[i]) IN
         CASE n.kind = "err" -> [kind |-> "err", at |-> i, why |-> n.why]
           [] ~n.some -> [kind |-> "panic", at |-> i,
                          why |-> "missing object_name2 attribute"]
           [] n.v = "Schema" ->
                LET id == ds_record_id_index(tbl[i]) IN
                CASE id.kind = "err" -> [kind |-> "err", at |-> i, why |-> id.why]
                  [] ~id.some -> [kind |-> "panic", at |-> i,
                                  why |-> "called Option::unwrap() on a None value"]
                  [] OTHER -> [kind |-> "found", at |-> i, why |-> ""]
           [] OTHER -> MainScan(tbl, i + 1)

main_schema_record_id(tbl) ==
    LET s == MainScan(tbl, 1) IN
    CASE s.kind = "err"   -> Err(s.why)
      [] s.kind = "panic" -> Panic(s.why)
      [] s.kind = "none"  -> Panic("missing schema record")
      [] OTHER            -> ds_record_id_index(tbl[s.at])

-----------------------------------------------------------------------------
(* The data tables the anchor lookup is run against *)

NameCells == {TextCell("Schema"), LargeTextCell("Schema"), TextCell("Other"),
              NullText, BadText}

\* a row kind: readable or not, its secondary name, whether DNT_col is set
RowKinds == [readable : {TRUE}, name2 : NameCells, hasId : BOOLEAN]
              \cup {[readable |-> FALSE, name2 |-> NullText, hasId |-> FALSE]}

AnchorTable(n, f) ==
    [i \in 1..n |->
        Row(f[i].readable,
            IF f[i].hasId THEN I32Cell(IdAt(i)) ELSE NullInt,
            NullInt,
            f[i].name2)]

-----------------------------------------------------------------------------
(* main.rs: column resolution (ColumnInfoMapping construction) *)

\* the column names main() resolves, in the order of the struct literal
\* (DS_RECORD_ID_INDEX_NAME .. DS_PEKINDEX_NAME)
RequiredColumns == <<
    "DNT_col", "PDNT_col", "time_col", "Ancestors_col", "ATTb590606",
    "ATTm3", "ATTm589825", "ATTk589826", "ATTl131074", "ATTl131075",
    "ATTq131091", "ATTq131192", "OBJ_col", "ATTi131120", "ATTb590605",
    "ATTr589970", "ATTm590045", "ATTm590480", "ATTj590126", "ATTj589832",
    "ATTq589876", "ATTq591520", "ATTq589983", "ATTq589920", "ATTq589873",
    "ATTj589993", "ATTj589836", "ATTj589922", "ATTk589914", "ATTk589879",
    "ATTk589918", "ATTk589984", "ATTk591734", "ATTk36", "ATTk589949",
    "ATTm590443", "ATTm590187", "ATTm590188", "ATTm591788", "ATTk591823",
    "ATTk591822", "ATTk591789", "ATTi590943", "ATTk590689"
>>

RequiredNames == {RequiredColumns[k] : k \in 1..Len(RequiredColumns)}

\* temporary_mapping after the loop over 0..count_columns(): HashMap::insert
\* replaces an earlier entry of the same name, so a name maps to the index
\* of its last occurrence in the listing (indices are 0-based)
NameIndices(cols, name) == {i \in 1..Len(cols) : cols[i] = name}

temporary_mapping(cols, name) ==
    LET S == NameIndices(cols, name) IN
    (CHOOSE i \in S : \A j \in S : j <= i) - 1

\* outcome of the struct literal: every field is
\* temporary_mapping.remove(NAME).unwrap(), evaluated in order, and the
\* first name that is not in the map aborts the process
ColNotRun   == [kind |-> "idle",  map |-> [n \in RequiredNames |-> -1], why |-> ""]
ColPanic(m) == [kind |-> "panic", map |-> [n \in RequiredNames |-> -1], why |-> m]
ColOk(f)    == [kind |-> "ok",    map |-> f, why |-> ""]

ColumnInfoMapping(cols) ==
    IF \E k \in 1..Len(RequiredColumns) : NameIndices(cols, RequiredColumns[k]) = {}
    THEN ColPanic("called Option::unwrap() on a None value")
    ELSE ColOk([n \in RequiredNames |-> temporary_mapping(cols, n)])

\* column listings: the required columns, some of them absent, and a few
\* further columns (a duplicate, a near miss in another case, an unrelated
\* one) before or after them
Droppable == {"DNT_col", "PDNT_col", "time_col", "Ancestors_col", "ATTm589825"}

ExtraNames == {"DNT_col", "dnt_col", "ATTm13"}

Listing(dropped, extra, front) ==
    LET kept == SelectSeq(RequiredColumns, LAMBDA n : n \notin dropped)
    IN  IF front THEN extra \o kept ELSE kept \o extra

-----------------------------------------------------------------------------
(* Type definitions: find_type_records *)

\* ObjectType: the supported types (the match of timelines_from_supported_type
\* is exhaustive over them)
ObjectTypes == {"Person", "Group", "Computer"}

\* outcome of find_type_records: map[t] is the table position of the row
\* kept for type t, 0 when the map has no entry for t
NoTypes         == [t \in ObjectTypes |-> 0]
TypesOk(f)      == [kind |-> "ok",    map |-> f,       why |-> ""]
TypesErr(e)     == [kind |-> "err",   map |-> NoTypes, why |-> e]
TypesPanic(msg) == [kind |-> "panic", map |-> NoTypes, why |-> msg]

\* a filter that lets every row through
EveryRowIsChild(rec, schema_id) ==
    [kind |-> "ok", some |-> TRUE, v |-> 0, why |-> ""]

\* data_table_ext.rs: the closure handed to .filter():
\* ds_parent_record_id_index(..).unwrap().unwrap() == self.schema_record_id
IsChildOfSchema(rec, schema_id) ==
    LET p == ds_parent_record_id_index(rec) IN
    CASE p.kind = "err" -> Panic("called Result::unwrap() on an Err value")
      [] ~p.some        -> Panic("called Option::unwrap() on a None value")
      [] OTHER          -> [kind |-> "ok", some |-> (p.v = schema_id),
                            v |-> 0, why |-> ""]

\* data_table_ext.rs: the for loop of find_type_records from the k-th
\* visited row on; names is type_names, map is type_records
RECURSIVE ExtScan(_, _, _, _, _, _)
ExtScan(tbl, order, schema_id, k, names, map) ==
    IF k > Len(order) THEN TypesOk(map)
    ELSE LET rec == tbl[order[k]] IN
      IF ~rec.readable THEN ExtScan(tbl, order, schema_id, k + 1, names, map)
      ELSE LET c == IsChildOfSchema(rec, schema_id) IN
        CASE c.kind = "panic" -> TypesPanic(c.why)
          [] ~c.some -> ExtScan(tbl, order, schema_id, k + 1, names, map)
          [] OTHER ->
               LET n == ds_object_name2_index(rec) IN
               CASE n.kind = "err" -> TypesErr(n.why)
                 [] ~n.some -> TypesPanic("missing object_name2 attribute")
                 [] OTHER ->
                      LET hit    == n.v \in names
                          names2 == names \ {n.v}
                          map2   == IF hit THEN [map EXCEPT ![n.v] = order[k]]
                                    ELSE map
                      IN  IF names2 = {} THEN TypesOk(map2)
                          ELSE ExtScan(tbl, order, schema_id, k + 1, names2, map2)

\* DataTableExt::find_type_records(type_names)
find_type_records_ext(tbl, schema_id, type_names, seed) ==
    ExtScan(tbl, IterRecords(tbl, seed), schema_id, 1, type_names, NoTypes)

\* DataTableExt::show_users, up to the type record:
\* find_type_record("Person")?.expect("missing record for type 'Person'")
show_users_type_record(tbl, schema_id, seed) ==
    LET r == find_type_records_ext(tbl, schema_id, {"Person"}, seed) IN
    IF r.kind # "ok" THEN r
    ELSE IF r.map["Person"] = 0
         THEN TypesPanic("missing record for type 'Person'")
         ELSE r

\* cache::DataTable::children_of: positions of the indexed rows whose parent
\* record id is the given id, in table order (the index keeps an ordered
\* set of child pointers per parent id; a row whose record id or parent id
\* does not decode is not indexed)
ChildrenOf(tbl, parent_id) ==
    SelectSeq([k \in 1..Len(tbl) |-> k],
              LAMBDA k : /\ tbl[k].readable
                         /\ tbl[k].id.variant = "I32"
                         /\ tbl[k].parent.variant = "I32"
                         /\ tbl[k].parent.v = parent_id)

\* data_table_record.rs, record_attribute!: the mandatory getter
\* <String>::from_value(cell): an absent value is ValueIsMissing, a cell of
\* another variant InvalidValueDetected
att_object_name2(rec) ==
    LET n == define_str_getter(rec.name2) IN
    CASE n.kind = "err" -> n
      [] ~n.some        -> ErrText("ValueIsMissing")
      [] OTHER          -> n

\* ObjectType::try_from(&str) succeeds on the names of the supported types
IsObjectType(name) == name \in ObjectTypes

\* data_table.rs: the for loop of find_type_records over the children of
\* the schema record, from the k-th child on
RECURSIVE TypeScan(_, _, _, _, _)
TypeScan(tbl, children, k, types, map) ==
    IF k > Len(children) THEN TypesOk(map)
    ELSE LET n == att_object_name2(tbl[children[k]]) IN
      IF n.kind = "err" THEN TypesErr(n.why)
      ELSE LET hit    == IsObjectType(n.v) /\ n.v \in types
               types2 == IF hit THEN types \ {n.v} ELSE types
               map2   == IF hit THEN [map EXCEPT ![n.v] = children[k]] ELSE map
           IN  IF types2 = {} THEN TypesOk(map2)
               ELSE TypeScan(tbl, children, k + 1, types2, map2)

\* DataTable::find_type_records(types)
find_type_records(tbl, schema_id, types) ==
    TypeScan(tbl, ChildrenOf(tbl, schema_id), 1, types, NoTypes)

\* DataTable::show_typed_objects, up to the type record:
\* find_type_record(object_type)?.unwrap_or_else(|| panic!(..))
show_typed_objects_type_record(tbl, schema_id, object_type) ==
    LET r == find_type_records(tbl, schema_id, {object_type}) IN
    IF r.kind # "ok" THEN r
    ELSE IF r.map[object_type] = 0
         THEN TypesPanic("missing record for type")
         ELSE r

\* the data tables type resolution is run against: the schema anchor
\* (record id SchemaId) first or last, and up to MaxTypeRows other rows
SchemaId == IdAt(0)
OtherParentId == IdAt(1)

TypeNameCells == {TextCell("Person"), TextCell("Group"), TextCell("Computer"),
                  TextCell("Other"), NullText}

ParentCells == {I32Cell(SchemaId), I32Cell(OtherParentId), NullInt}

TypeRowKinds == [readable : {TRUE}, name2 : TypeNameCells, parent : ParentCells]
                  \cup {[readable |-> FALSE, name2 |-> NullText, parent |-> NullInt]}

SchemaRow == Row(TRUE, I32Cell(SchemaId), I32Cell(IdAt(1)), TextCell("Schema"))

TypeTable(n, f, front) ==
    LET rest == [i \in 1..n |->
                    Row(f[i].readable, I32Cell(IdAt(i + 1)), f[i].parent, f[i].name2)]
    IN  IF front THEN <<SchemaRow>> \o rest ELSE rest \o <<SchemaRow>>

-----------------------------------------------------------------------------
(* dbrecord.rs: define_sid_getter *)

\* a binary cell; v is its bytes
BinaryCell(b)      == [variant |-> "Binary", v |-> b]
LargeBinaryCell(b) == [variant |-> "LargeBinary", v |-> b]
NullBinary         == [variant |-> "Null", v |-> <<>>]
\* a cell of a variant the getter does not accept (e.g. Value::Text)
BadBinary          == [variant |-> "Text", v |-> <<>>]

Reverse(b) == [k \in 1..Len(b) |-> b[Len(b) + 1 - k]]

\* a read that hands out the bytes that are left, zero-padded
ReadPadded(buf, pos, n) ==
    [ok  |-> TRUE,
     v   |-> [k \in 1..n |-> IF pos + k - 1 <= Len(buf) THEN buf[pos + k - 1] ELSE 0],
     pos |-> pos + n]

\* Cursor + Read::read_exact: the next n bytes from position pos, or
\* UnexpectedEof when fewer are left
ReadExact(buf, pos, n) ==
    IF pos + n - 1 <= Len(buf)
    THEN [ok |-> TRUE,  v |-> SubSeq(buf, pos, pos + n - 1), pos |-> pos + n]
    ELSE [ok |-> FALSE, v |-> <<>>, pos |-> pos]

\* byteorder readers: the value read is kept as its bytes, most significant
\* first, so that no width is lost
read_uint_be(buf, pos, n) == ReadExact(buf, pos, n)

read_uint_le(buf, pos, n) ==
    LET r == ReadExact(buf, pos, n) IN [r EXCEPT !.v = Reverse(r.v)]

\* format!("{n}") of an unsigned integer given by its bytes: the decimal
\* digits, least significant first, of 256 * digits + byte
RECURSIVE MulAdd256(_, _, _)
MulAdd256(digits, k, carry) ==
    IF k > Len(digits)
    THEN IF carry = 0 THEN <<>>
         ELSE <<carry % 10>> \o MulAdd256(digits, k, carry \div 10)
    ELSE LET x == digits[k] * 256 + carry
         IN  <<x % 10>> \o MulAdd256(digits, k + 1, x \div 10)

RECURSIVE DecimalDigits(_, _, _)
DecimalDigits(bytes, k, digits) ==
    IF k > Len(bytes) THEN digits
    ELSE DecimalDigits(bytes, k + 1, MulAdd256(digits, 1, bytes[k]))

RECURSIVE DigitString(_, _)
DigitString(digits, k) ==
    IF k = 0 THEN "" ELSE ToString(digits[k]) \o DigitString(digits, k - 1)

Display(bytes) ==
    LET d == DecimalDigits(bytes, 1, <<>>)
    IN  IF d = <<>> THEN "0" ELSE DigitString(d, Len(d))

\* .collect::<Vec<String>>().join("-")
RECURSIVE Join(_, _)
Join(numbers, k) ==
    IF k > Len(numbers) THEN ""
    ELSE IF k = Len(numbers) THEN numbers[k]
    ELSE numbers[k] \o "-" \o Join(numbers, k + 1)

\* the last sub-authority read like the ones before it
ReadLastLikeTheOthers(buf, pos) == read_uint_le(buf, pos, 4)

\* numbers.push(rdr.read_u32::<BigEndian>()?)
ReadLastSubAuthority(buf, pos) == read_uint_be(buf, pos, 4)

\* for _i in 0..number_of_dashes-1 { numbers.push(rdr.read_u32::<LittleEndian>()?) }
\* followed by the read of the last number
RECURSIVE ReadSubAuthorities(_, _, _, _)
ReadSubAuthorities(buf, pos, left, numbers) ==
    IF left = 0
    THEN LET r == ReadLastSubAuthority(buf, pos) IN
         IF r.ok THEN [ok |-> TRUE, numbers |-> Append(numbers, Display(r.v))]
         ELSE [ok |-> FALSE, numbers |-> <<>>]
    ELSE LET r == read_uint_le(buf, pos, 4) IN
         IF r.ok
         THEN ReadSubAuthorities(buf, r.pos, left - 1, Append(numbers, Display(r.v)))
         ELSE [ok |-> FALSE, numbers |-> <<>>]

\* the Binary | LargeBinary arm.  number_of_dashes - 1 is u8 arithmetic: for
\* a count of 0 it panics in a build with overflow checks and wraps to 255
\* in one without
sid_from_bytes(val, checked) ==
    LET revision         == ReadExact(val, 1, 1)
        number_of_dashes == ReadExact(val, 2, 1)
        authority        == read_uint_be(val, 3, 6)
    IN  IF ~revision.ok \/ ~number_of_dashes.ok \/ ~authority.ok
        THEN ErrText("UnexpectedEof")
        ELSE IF number_of_dashes.v[1] = 0 /\ checked
        THEN [kind |-> "panic", some |-> FALSE, v |-> "",
              why |-> "attempt to subtract with overflow"]
        ELSE LET loops == (number_of_dashes.v[1] + 255) % 256
                 subs  == ReadSubAuthorities(val, authority.pos, loops, <<>>)
             IN  IF ~subs.ok THEN ErrText("UnexpectedEof")
                 ELSE OkText("S-" \o Display(revision.v) \o "-"
                             \o Display(authority.v) \o "-"
                             \o Join(subs.numbers, 1))

define_sid_getter(cell, checked) ==
    CASE cell.variant \in {"Binary", "LargeBinary"} ->
             sid_from_bytes(cell.v, checked)
      [] cell.variant = "Null" -> OkNoText
      [] OTHER                 -> ErrText("InvalidValueDetected")

\* the SID cells the getter is run against: revision, sub-authority count,
\* 48-bit big-endian authority and the sub-authorities as 32-bit integers,
\* either all little-endian ("le") or with the last one big-endian
\* ("ntds"), cut after len bytes
RECURSIVE UintLE(_, _)
UintLE(n, width) ==
    IF width = 0 THEN <<>> ELSE <<n % 256>> \o UintLE(n \div 256, width - 1)

UintBE(n, width) == Reverse(UintLE(n, width))

RECURSIVE EncodeSubs(_, _, _)
EncodeSubs(subs, layout, k) ==
    IF k > Len(subs) THEN <<>>
    ELSE (IF k = Len(subs) /\ layout = "ntds"
          THEN UintBE(subs[k], 4) ELSE UintLE(subs[k], 4))
         \o EncodeSubs(subs, layout, k + 1)

EncodeSid(src) ==
    <<src.revision, Len(src.subs)>> \o UintBE(src.authority, 6)
        \o EncodeSubs(src.subs, src.layout, 1)

Revisions == {1, 255}

Authorities == {5, 1000000}

SubValues == {0, 21, 500, 2147483647}

NoSid == [revision |-> 0, authority |-> 0, subs |-> <<>>, layout |-> "", len |-> 0]

-----------------------------------------------------------------------------
(* Timestamps: define_datetime_getter                                       *)
(*                                                                          *)
(* A tick count is an i64 (Value::Currency).  It is kept as a sign and a    *)
(* magnitude split into whole days, seconds of the day and ticks of the     *)
(* second:  |t| = (days * 86400 + secs) * 10000000 + ticks.                 *)

I64(neg, days, secs, ticks) ==
    [neg |-> neg, days |-> days, secs |-> secs, ticks |-> ticks]

ZeroTicks == I64(FALSE, 0, 0, 0)
\* i64::MAX = 9223372036854775807 and i64::MIN = -9223372036854775808
I64Max == I64(FALSE, 10675199, 10085, 4775807)
I64Min == I64(TRUE, 10675199, 10085, 4775808)

\* |a| <= |b|
MagnitudeLeq(a, b) ==
    \/ a.days < b.days
    \/ a.days = b.days /\ a.secs < b.secs
    \/ a.days = b.days /\ a.secs = b.secs /\ a.ticks <= b.ticks

IsI64(t) ==
    /\ t.days >= 0 /\ t.secs \in 0..86399 /\ t.ticks \in 0..9999999
    /\ t.neg => t # I64(TRUE, 0, 0, 0)
    /\ IF t.neg THEN MagnitudeLeq(t, I64Min) ELSE MagnitudeLeq(t, I64Max)

CurrencyCell(t) == [variant |-> "Currency", v |-> t]
NullCurrency    == [variant |-> "Null", v |-> ZeroTicks]
\* a cell of a variant the datetime getter does not accept (e.g. Value::I64)
BadCurrency     == [variant |-> "I64", v |-> ZeroTicks]

\* chrono DateTime<Utc>: day number (0001-01-01 is day 1), second of the
\* day and nanosecond of the second
DateTime(day, sec, nano) == [day |-> day, sec |-> sec, nano |-> nano]
NoDateTime == DateTime(0, 0, 0)

NotRunTime   == [kind |-> "idle",  some |-> FALSE, v |-> NoDateTime, why |-> ""]
OkTime(dt)   == [kind |-> "ok",    some |-> TRUE,  v |-> dt, why |-> ""]
OkNoTime     == [kind |-> "ok",    some |-> FALSE, v |-> NoDateTime, why |-> ""]
ErrTime(e)   == [kind |-> "err",   some |-> FALSE, v |-> NoDateTime, why |-> e]
PanicTime(m) == [kind |-> "panic", some |-> FALSE, v |-> NoDateTime, why |-> m]

IsLeapYear(y) == y % 4 = 0 /\ (y % 100 # 0 \/ y % 400 = 0)

DaysBeforeMonth == <<0, 31, 59, 90, 120, 151, 181, 212, 243, 273, 304, 334>>

\* NaiveDate::from_ymd(y, m, d) for y >= 1, as a day number
from_ymd(y, m, d) ==
    LET prev == y - 1
    IN  365 * prev + (prev \div 4) - (prev \div 100) + (prev \div 400)
        + DaysBeforeMonth[m] + (IF m > 2 /\ IsLeapYear(y) THEN 1 ELSE 0) + d

\* DateTime::<Utc>::from_utc(NaiveDate::from_ymd(1601, 1, 1).and_hms(0, 0, 0), Utc)
dt_base == DateTime(from_ymd(1601, 1, 1), 0, 0)

\* val / 10: i64 division truncates toward zero; the result counts
\* microseconds, |us| = (days * 86400 + secs) * 1000000 + micros
TruncDiv10(val) ==
    LET micros == val.ticks \div 10
    IN  [neg |-> val.neg /\ (val.days # 0 \/ val.secs # 0 \/ micros # 0),
         days |-> val.days, secs |-> val.secs, micros |-> micros]

\* -(days * 86400 + secs) seconds as whole days (rounded down) and seconds
\* of the day
NegSeconds(days, secs) ==
    IF secs = 0 THEN [days |-> -days, secs |-> 0]
    ELSE [days |-> -days - 1, secs |-> 86400 - secs]

\* Duration::microseconds(us): secs = us.div_euclid(1000000) and
\* nanos = us.rem_euclid(1000000) * 1000; secs is kept as days and seconds
DurationMicroseconds(us) ==
    IF ~us.neg
    THEN [days |-> us.days, secs |-> us.secs, nanos |-> us.micros * 1000]
    ELSE IF us.micros = 0
         THEN LET w == NegSeconds(us.days, us.secs)
              IN  [days |-> w.days, secs |-> w.secs, nanos |-> 0]
         ELSE LET w == IF us.secs = 86399
                       THEN NegSeconds(us.days + 1, 0)
                       ELSE NegSeconds(us.days, us.secs + 1)
              IN  [days |-> w.days, secs |-> w.secs,
                   nanos |-> (1000000 - us.micros) * 1000]

\* the days chrono's NaiveDate can hold: -262143-01-01 .. +262142-12-31
NaiveDateMinDay == -95746130
NaiveDateMaxDay == 95745399

\* the days a 32-bit count of seconds from dt_base can reach
InI32SecondsRange(day) ==
    day \in (dt_base.day - 24855)..(dt_base.day + 24855)

InNaiveDateRange(day) == day \in NaiveDateMinDay..NaiveDateMaxDay

\* DateTime::checked_add_signed
checked_add_signed(dt, duration) ==
    LET nano == dt.nano + duration.nanos
        sec  == dt.sec + duration.secs + (nano \div 1000000000)
        day  == dt.day + duration.days + (sec \div 86400)
    IN  [ok |-> InNaiveDateRange(day),
         v  |-> DateTime(day, sec % 86400, nano % 1000000000)]

\* a datetime getter that answers a null cell with the epoch
define_datetime_getter_epoch(cell) ==
    CASE cell.variant = "Currency" ->
            LET sum == checked_add_signed(dt_base, DurationMicroseconds(TruncDiv10(cell.v)))
            IN  IF sum.ok THEN OkTime(sum.v)
                ELSE PanicTime("DateTime + Duration overflowed")
      [] cell.variant = "Null" -> OkTime(dt_base)
      [] OTHER -> ErrTime("InvalidValueDetected")

\* the body of a getter defined by define_datetime_getter!
define_datetime_getter(cell) ==
    CASE cell.variant = "Currency" ->
            LET duration == DurationMicroseconds(TruncDiv10(cell.v))
                sum == checked_add_signed(dt_base, duration)
            IN  \* dt_base + duration: Add::add expects checked_add_signed
                IF sum.ok THEN OkTime(sum.v)
                ELSE PanicTime("DateTime + Duration overflowed")
      [] cell.variant = "Null" -> OkNoTime
      [] OTHER -> ErrTime("InvalidValueDetected")

\* tick counts a cell may hold
TickDays == {0, 1, 146097, 10675199}
TickSeconds == {0, 1, 10085, 86399}
TickFractions == (0..MaxSmallTick) \cup {4775807, 4775808, 9999990, 9999999}

TickCounts ==
    {t \in {I64(neg, d, s, f) : neg \in BOOLEAN, d \in TickDays,
                                s \in TickSeconds, f \in TickFractions} :
        IsI64(t)}

-----------------------------------------------------------------------------
(* The primitive decoders, side by side *)

\* the variants of libesedb::Value
Variants == {"Null", "Bool", "U8", "I16", "I32", "I64", "F32", "Text",
             "LargeText", "Binary", "LargeBinary", "Currency", "DateTime",
             "Guid"}

HexDigits == <<"0", "1", "2", "3", "4", "5", "6", "7",
               "8", "9", "a", "b", "c", "d", "e", "f">>

\* hex::encode: two lowercase hexadecimal digits per byte
RECURSIVE hex_encode(_)
hex_encode(b) ==
    IF b = <<>> THEN ""
    ELSE HexDigits[(Head(b) \div 16) + 1] \o HexDigits[(Head(b) % 16) + 1]
         \o hex_encode(Tail(b))

\* a binary getter that also takes the bytes of a text cell
define_bin_getter_casting(cell) ==
    CASE cell.variant \in {"Binary", "LargeBinary", "Text", "LargeText"} ->
             OkText(hex_encode(cell.v))
      [] cell.variant = "Null" -> OkNoText
      [] OTHER                 -> ErrText("InvalidValueDetected")

\* define_bin_getter: Binary | LargeBinary -> Some(hex), Null -> None,
\* else error
define_bin_getter(cell) ==
    CASE cell.variant \in {"Binary", "LargeBinary"} -> OkText(hex_encode(cell.v))
      [] cell.variant = "Null" -> OkNoText
      [] OTHER                 -> ErrText("InvalidValueDetected")

\* a duration of val ticks of 100 ns, as days, seconds and nanoseconds
DurationTicks(val) ==
    IF ~val.neg
    THEN [days |-> val.days, secs |-> val.secs, nanos |-> val.ticks * 100]
    ELSE IF val.ticks = 0
         THEN LET w == NegSeconds(val.days, val.secs)
              IN  [days |-> w.days, secs |-> w.secs, nanos |-> 0]
         ELSE LET w == IF val.secs = 86399
                       THEN NegSeconds(val.days + 1, 0)
                       ELSE NegSeconds(val.days, val.secs + 1)
              IN  [days |-> w.days, secs |-> w.secs,
                   nanos |-> (10000000 - val.ticks) * 100]

\* From<i64> for WindowsFileTime: the epoch plus the duration of the ticks
WindowsFileTimeFrom(val) == checked_add_signed(dt_base, DurationTicks(val)).v

\* impl_timestamp!: FromValue::from_value_opt
from_value_opt(value) ==
    CASE value.variant = "Currency" -> OkTime(WindowsFileTimeFrom(value.v))
      [] value.variant = "Null"     -> OkNoTime
      [] OTHER                      -> ErrTime("InvalidValueDetected")

\* FromValue::from_value: a value is mandatory
from_value(value) ==
    LET decoded == from_value_opt(value)
    IN  IF decoded.kind = "ok" /\ ~decoded.some THEN ErrTime("ValueIsMissing")
        ELSE decoded

\* record_attribute!(ds_record_time, DsRecordTime, TruncatedWindowsFileTime):
\* the mandatory getter; found says that get_by_id returns Some
ds_record_time(found, cell) ==
    IF ~found THEN ErrTime("ValueIsMissing") ELSE from_value(cell)

\* ... and the optional getter of the same attribute
ds_record_time_opt(found, cell) ==
    IF ~found THEN ErrTime("ValueIsMissing") ELSE from_value_opt(cell)

\* the getters of a record
DbRecordGetters == {"i32", "str", "bin", "sid", "datetime"}
Getters == DbRecordGetters \cup {"timestamp", "ds_record_time", "ds_record_time_opt"}

\* what a cell handed to a getter carries
Payloads(getter) ==
    CASE getter = "i32" -> {0, 513}
      [] getter = "str" -> {"", "Schema"}
      [] getter \in {"bin", "sid"} ->
             {<<>>, <<171, 5>>, <<1, 1, 0, 0, 0, 0, 0, 5, 0, 0, 0, 21>>}
      [] OTHER -> {ZeroTicks, I64(FALSE, 1, 1, 1), I64(TRUE, 0, 0, 1)}

NullCell(getter) ==
    CASE getter = "i32" -> NullInt
      [] getter = "str" -> NullText
      [] getter \in {"bin", "sid"} -> NullBinary
      [] OTHER -> NullCurrency

CellsFor(getter) ==
    {[variant |-> variant, v |-> v] :
        variant \in Variants \ {"Null"}, v \in Payloads(getter)}
    \cup {NullCell(getter)}

NotCalled(getter) ==
    CASE getter = "i32" -> NotRun
      [] getter \in {"str", "bin", "sid"} -> NotRunText
      [] OTHER -> NotRunTime

\* self.inner_record.value(..)? : the read of the cell may fail
ReadFailed(getter) ==
    CASE getter = "i32" -> Err("io::Error")
      [] getter \in {"str", "bin", "sid"} -> ErrText("io::Error")
      [] OTHER -> ErrTime("io::Error")

\* DbRecord::ds_*_index, from_value_opt and DataTableRecord::ds_record_time,
\* by the macro that defines them; found says that the record yields a cell
Decode(getter, found, cell, checked) ==
    CASE getter \in DbRecordGetters /\ ~found -> ReadFailed(getter)
      [] getter = "i32" -> define_i32_getter(cell)
      [] getter = "str" -> define_str_getter(cell)
      [] getter = "bin" -> define_bin_getter(cell)
      [] getter = "sid" -> define_sid_getter(cell, checked)
      [] getter = "datetime" -> define_datetime_getter(cell)
      [] getter = "ds_record_time" -> ds_record_time(found, cell)
      [] getter = "ds_record_time_opt" -> ds_record_time_opt(found, cell)
      [] OTHER -> from_value_opt(cell)

-----------------------------------------------------------------------------
(* Typed listings: DataTableExt::show_users, DataTable::show_typed_objects *)

\* a row with the cells and outcomes the queries look at: type is the
\* object-type id cell (ATTb590606), decodes says that the projection of the
\* row into a typed object (Person::from, O::new) succeeds
QRow(ok, id, parent, name2, type, decodes) ==
    [readable |-> ok, id |-> id, parent |-> parent, name2 |-> name2,
     type |-> type, decodes |-> decodes]

ds_object_type_id_index(rec) == define_i32_getter(rec.type)

\* outcome of a bulk operation: emitted lists the table positions of the
\* rows an object was written for, in the order they were written
ListNotRun        == [kind |-> "idle",  emitted |-> <<>>, why |-> ""]
ListOk(out)       == [kind |-> "ok",    emitted |-> out,  why |-> ""]
ListErr(out, e)   == [kind |-> "err",   emitted |-> out,  why |-> e]
ListPanic(out, m) == [kind |-> "panic", emitted |-> out,  why |-> m]

NoRequest == [fn |-> "", type |-> ""]

\* data_table_ext.rs:103: ds_object_type_id_index(..).unwrap() == type_record_id
\* compares two Option<i32>
SameTypeId(type_id, type_record_id) ==
    /\ type_id.some = type_record_id.some
    /\ type_id.some => type_id.v = type_record_id.v

\* data_table_ext.rs: the for loop of show_users from the k-th row on
RECURSIVE UsersScan(_, _, _, _)
UsersScan(tbl, type_record_id, k, out) ==
    IF k > Len(tbl) THEN ListOk(out)
    ELSE LET rec == tbl[k] IN
      IF ~rec.readable THEN UsersScan(tbl, type_record_id, k + 1, out)
      ELSE LET t == ds_object_type_id_index(rec) IN
        CASE t.kind = "err" -> UsersScan(tbl, type_record_id, k + 1, out)
          [] ~SameTypeId(t, type_record_id) ->
               UsersScan(tbl, type_record_id, k + 1, out)
          [] ~rec.decodes ->
               ListPanic(out, "called Result::unwrap() on an Err value")
          [] OTHER -> UsersScan(tbl, type_record_id, k + 1, Append(out, k))

\* DataTableExt::show_users
show_users(tbl, schema_id, seed) ==
    LET r == show_users_type_record(tbl, schema_id, seed) IN
    CASE r.kind = "err"   -> ListErr(<<>>, r.why)
      [] r.kind = "panic" -> ListPanic(<<>>, r.why)
      [] OTHER ->
           LET type_record_id == ds_record_id_index(tbl[r.map["Person"]])
           IN  IF type_record_id.kind = "err" THEN ListErr(<<>>, type_record_id.why)
               ELSE UsersScan(tbl, type_record_id, 1, <<>>)

\* data_table_record.rs, record_attribute!(ds_record_id, DsRecordId, i32):
\* the mandatory getter
ds_record_id(rec) ==
    LET n == define_i32_getter(rec.id) IN
    CASE n.kind = "err" -> n
      [] ~n.some        -> Err("ValueIsMissing")
      [] OTHER          -> n

\* cache metadata entries_of_type: positions of the indexed rows whose
\* object-type id is the given id, in table order (a row whose record id or
\* parent id does not decode is not indexed; a row without a type id is in
\* no type's set)
EntriesOfType(tbl, type_id) ==
    SelectSeq([k \in 1..Len(tbl) |-> k],
              LAMBDA k : /\ tbl[k].readable
                         /\ tbl[k].id.variant = "I32"
                         /\ tbl[k].parent.variant = "I32"
                         /\ tbl[k].type.variant = "I32"
                         /\ tbl[k].type.v = type_id)

\* data_table.rs: the for loop of show_typed_objects from the k-th entry on:
\* O::new(record?, ..)? returns the first error
RECURSIVE TypedScan(_, _, _, _)
TypedScan(tbl, entries, k, out) ==
    IF k > Len(entries) THEN ListOk(out)
    ELSE IF ~tbl[entries[k]].decodes THEN ListErr(out, "O::new")
         ELSE TypedScan(tbl, entries, k + 1, Append(out, entries[k]))

\* DataTable::show_typed_objects
show_typed_objects(tbl, schema_id, object_type) ==
    LET r == show_typed_objects_type_record(tbl, schema_id, object_type) IN
    CASE r.kind = "err"   -> ListErr(<<>>, r.why)
      [] r.kind = "panic" -> ListPanic(<<>>, r.why)
      [] OTHER ->
           LET type_record_id == ds_record_id(tbl[r.map[object_type]])
           IN  IF type_record_id.kind = "err" THEN ListErr(<<>>, type_record_id.why)
               ELSE TypedScan(tbl, EntriesOfType(tbl, type_record_id.v), 1, <<>>)

\* the data tables the queries are run against: the schema anchor, the type
\* definitions of Person and (perhaps) Group, and up to MaxObjects other rows
PersonId == IdAt(1)
GroupId == IdAt(2)
ContainerId == IdAt(50)

TypeIdCells == {I32Cell(PersonId), I32Cell(GroupId), I32Cell(ContainerId),
                NullInt, BadInt}

ObjectKinds == [readable : {TRUE}, type : TypeIdCells, decodes : BOOLEAN]
                 \cup {[readable |-> FALSE, type |-> NullInt, decodes |-> TRUE]}

TypeRow(id, name) ==
    QRow(TRUE, id, I32Cell(SchemaId), TextCell(name), NullInt, TRUE)

QuerySchemaRow ==
    QRow(TRUE, I32Cell(SchemaId), I32Cell(IdAt(1)), TextCell("Schema"), NullInt, TRUE)

QueryTable(person_id, with_group, n, f) ==
    <<QuerySchemaRow, TypeRow(person_id, "Person")>>
    \o (IF with_group THEN <<TypeRow(I32Cell(GroupId), "Group")>> ELSE <<>>)
    \o [i \in 1..n |->
          QRow(f[i].readable, I32Cell(IdAt(100 + i)), I32Cell(ContainerId),
               TextCell("Other"), f[i].type, f[i].decodes)]

-----------------------------------------------------------------------------
(* Entry lookup: DataTable::show_entry *)

\* a row as the index sees it: sid lists the sub-authorities of the row's
\* security identifier (empty when it has none), refetch says that the row
\* can be read again through its pointer (data_table_record_from)
ERow(ok, id, sid, refetch) ==
    [readable |-> ok, id |-> id, sid |-> sid, refetch |-> refetch]

\* EntryId::Id(id) | EntryId::Rid(rid)
EntryId(by, n) == [by |-> by, n |-> n]
NoEntryId == EntryId("", 0)

EntryNotRun      == [kind |-> "idle", printed |-> "", rendered |-> 0]
EntryOk(msg, at) == [kind |-> "ok",   printed |-> msg, rendered |-> at]
EntryErr         == [kind |-> "err",  printed |-> "", rendered |-> 0]

\* cache metadata record(&id): the indexed row with that record id
RecordById(tbl, id) ==
    SelectSeq([k \in 1..Len(tbl) |-> k],
              LAMBDA k : tbl[k].readable /\ tbl[k].id = I32Cell(id))

\* cache metadata entries_with_rid(rid): the indexed rows whose security
\* identifier ends in rid, in table order
EntriesWithRid(tbl, rid) ==
    SelectSeq([k \in 1..Len(tbl) |-> k],
              LAMBDA k : /\ tbl[k].readable
                         /\ tbl[k].id.variant = "I32"
                         /\ tbl[k].sid # <<>>
                         /\ tbl[k].sid[Len(tbl[k].sid)] = rid)

\* a show_entry that reports a lookup without a match as an error
show_entry_strict(tbl, entry_id) ==
    LET found == IF entry_id.by = "Id" THEN RecordById(tbl, entry_id.n)
                 ELSE EntriesWithRid(tbl, entry_id.n)
    IN  IF found = <<>> THEN EntryErr
        ELSE IF ~tbl[found[1]].refetch THEN EntryErr
             ELSE EntryOk("", found[1])

\* DataTable::show_entry
show_entry(tbl, entry_id) ==
    LET found == IF entry_id.by = "Id" THEN RecordById(tbl, entry_id.n)
                 ELSE EntriesWithRid(tbl, entry_id.n)
    IN  \* .next() / Option: the first entry, if any
        IF found = <<>> THEN EntryOk("no matching object found", 0)
        ELSE IF ~tbl[found[1]].refetch THEN EntryErr
             ELSE EntryOk("", found[1])

\* the rows entries are looked up in
SidTails == {<<>>, <<21, 500>>, <<21, 501>>, <<32, 500>>}

EntryKinds == [readable : BOOLEAN, sid : SidTails, refetch : BOOLEAN]

EntryTable(n, f) ==
    [i \in 1..n |-> ERow(f[i].readable, I32Cell(IdAt(100 + i)), f[i].sid, f[i].refetch)]

EntryIds == {EntryId("Id", IdAt(100 + i)) : i \in 1..(MaxObjects + 1)}
               \cup {EntryId("Rid", rid) : rid \in {500, 501, 502}}

-----------------------------------------------------------------------------
(* Free-text search: DataTable::search_entries *)

\* the attribute ids search looks at; the first five are the columns the
\* output always starts with
FixedColumns == <<"DsRecordId", "DsParentRecordId", "AttCommonName", "AttRdn",
                  "AttObjectCategory">>
NtdsAttributeIds == <<"DsRecordId", "DsParentRecordId", "AttCommonName", "AttRdn",
                      "AttObjectCategory", "AttSamAccountName", "AttDescription">>

\* display texts, as sequences of characters; a record is a function from
\* NtdsAttributeIds to its display texts, Absent for an attribute it lacks
Absent == <<"(absent)">>
Texts == {<<"x">>, <<"y", "\n">>, <<"7">>}

\* record.all_attributes(): the attributes the record has
all_attributes(rec) ==
    {a \in DOMAIN rec : rec[a] # Absent}

\* a compiled Regex: the texts it matches; valid is FALSE for a pattern
\* Regex::new refuses
Regex(valid, matches) == [valid |-> valid, matches |-> matches]
is_match(re, text) == text \in re.matches

NoSearch == [re |-> Regex(FALSE, {}), seed |-> 0]

SearchNotRun      == [kind |-> "idle", header |-> <<>>, rows |-> <<>>]
SearchOk(hdr, rs) == [kind |-> "ok",   header |-> hdr,  rows |-> rs]
SearchErr         == [kind |-> "err",  header |-> <<>>, rows |-> <<>>]

\* matching_columns.keys(): the keys of a HashMap, in an order that follows
\* the seed of the run's hasher
Keys(set, seed) ==
    LET inOrder == SelectSeq(NtdsAttributeIds, LAMBDA a : a \in set)
    IN  IF seed % 2 = 0 THEN inOrder
        ELSE [k \in 1..Len(inOrder) |-> inOrder[Len(inOrder) + 1 - k]]

Contains(seq, x) == \E i \in 1..Len(seq) : seq[i] = x

\* every key is pushed, already a column or not
RECURSIVE PushAll(_, _, _)
PushAll(table_columns, keys, k) ==
    IF k > Len(keys) THEN table_columns
    ELSE PushAll(Append(table_columns, keys[k]), keys, k + 1)

\* for id in matching_columns.keys()
\*     { if !table_columns.contains(id) { table_columns.push(*id) } }
RECURSIVE PushNew(_, _, _)
PushNew(table_columns, keys, k) ==
    IF k > Len(keys) THEN table_columns
    ELSE PushNew(IF Contains(table_columns, keys[k]) THEN table_columns
                 ELSE Append(table_columns, keys[k]),
                 keys, k + 1)

\* the for loop over self.data_table.iter() from the k-th record on
RECURSIVE SearchScan(_, _, _, _, _, _)
SearchScan(tbl, re, seed, k, table_columns, records) ==
    IF k > Len(tbl) THEN [table_columns |-> table_columns, records |-> records]
    ELSE LET matching_columns ==
                 {a \in all_attributes(tbl[k]) : is_match(re, tbl[k][a])}
         IN  IF matching_columns = {}
             THEN SearchScan(tbl, re, seed, k + 1, table_columns, records)
             ELSE SearchScan(tbl, re, seed, k + 1,
                             PushNew(table_columns, Keys(matching_columns, seed), 1),
                             Append(records, k))

\* .replace('\n', "\\n").replace('\r', "\\r")
RECURSIVE EscapeNewlines(_)
EscapeNewlines(text) ==
    IF text = <<>> THEN <<>>
    ELSE (CASE Head(text) = "\n" -> <<"\\", "n">>
            [] Head(text) = "\r" -> <<"\\", "r">>
            [] OTHER -> <<Head(text)>>)
         \o EscapeNewlines(Tail(text))

\* one output row: a cell per column, empty for an attribute the record lacks
write_record(rec, table_columns) ==
    [c \in 1..Len(table_columns) |->
        IF table_columns[c] \in all_attributes(rec)
        THEN EscapeNewlines(rec[table_columns[c]])
        ELSE <<>>]

\* DataTable::search_entries
search_entries(tbl, re, seed) ==
    IF ~re.valid THEN SearchErr
    ELSE LET found == SearchScan(tbl, re, seed, 1, FixedColumns, <<>>)
         IN  SearchOk(found.table_columns,
                      [r \in 1..Len(found.records) |->
                          [at |-> found.records[r],
                           cells |-> write_record(tbl[found.records[r]],
                                                  found.table_columns)]])

\* the records searched: record id and, perhaps, common name, account name
\* and description
SearchKinds == [cn : {Absent, <<"x">>}, sam : {Absent, <<"x">>, <<"y", "\n">>},
                desc : {Absent, <<"x">>, <<"y", "\n">>}]

SearchRecord(kind) ==
    [a \in {NtdsAttributeIds[i] : i \in 1..Len(NtdsAttributeIds)} |->
        CASE a = "DsRecordId" -> <<"7">>
          [] a = "AttCommonName" -> kind.cn
          [] a = "AttSamAccountName" -> kind.sam
          [] a = "AttDescription" -> kind.desc
          [] OTHER -> Absent]

Patterns == {Regex(TRUE, m) : m \in {{}, {<<"x">>}, {<<"y", "\n">>},
                                      {<<"x">>, <<"y", "\n">>}, {<<"7">>}}}
               \cup {Regex(FALSE, {})}

-----------------------------------------------------------------------------
(* Timeline export: DataTable::show_timeline, DataTableExt::show_timeline *)

\* a row of the timeline tables: a QRow with the timestamp attributes it
\* has (stamps) and whether its deleted-from-container back-reference
\* resolves to the deleted-objects container
TimedRow(q, stamps, deleted_from) ==
    [readable |-> q.readable, id |-> q.id, parent |-> q.parent, name2 |-> q.name2,
     type |-> q.type, decodes |-> q.decodes, stamps |-> stamps,
     deleted_from |-> deleted_from]

NoExport == [fn |-> "", all |-> FALSE, deleted |-> FALSE, seed |-> 0]

\* the timestamp attributes, in the order a projection emits them
TimestampAttributes == <<"record_time", "pwd_last_set", "last_logon">>

\* the timestamp set of a projection: the type-specific set of a supported
\* type, the record's own creation time for the generic fallback
TimestampSet(via) ==
    IF via \in ObjectTypes THEN Range(TimestampAttributes) ELSE {"record_time"}

\* Vec::<Bodyfile3Line>::from(typed object) / try_from(record): one line per
\* present timestamp attribute of the projection's set
Bodyfile3Lines(rec, via) ==
    SelectSeq(TimestampAttributes, LAMBDA a : a \in rec.stamps /\ a \in TimestampSet(via))

\* what one record contributes to the output: its table position, the
\* projection it went through and the lines printed for it
Projected(k, rec, via) == [at |-> k, via |-> via, lines |-> Bodyfile3Lines(rec, via)]

\* schema.supported_type_entries(): the type definition found under the
\* schema anchor for each supported type (0: none)
supported_type_entries(tbl, schema_id) ==
    [t \in ObjectTypes |->
        LET found == SelectSeq(ChildrenOf(tbl, schema_id),
                               LAMBDA k : tbl[k].name2 = TextCell(t))
        IN  IF found = <<>> THEN 0 ELSE found[1]]

\* schema.all_type_entries(): every type definition under the schema anchor
all_type_entries(tbl, schema_id) == ChildrenOf(tbl, schema_id)

\* cache metadata entries_of_types(types): the indexed rows whose object-type
\* id is one of the given ids, in table order
entries_of_types(tbl, types) ==
    SelectSeq([k \in 1..Len(tbl) |-> k],
              LAMBDA k : \E t \in types : k \in Range(EntriesOfType(tbl, t)))

\* cache metadata entries_with_deleted_from_container_guid()
entries_with_deleted_from_container_guid(tbl) ==
    SelectSeq([k \in 1..Len(tbl) |-> k],
              LAMBDA k : /\ tbl[k].readable
                         /\ tbl[k].id.variant = "I32"
                         /\ tbl[k].parent.variant = "I32"
                         /\ tbl[k].deleted_from)

\* data_table_record.rs, record_attribute!(att_object_type_id, .., i32): the
\* optional getter
att_object_type_id_opt(rec) == define_i32_getter(rec.type)

\* data_table.rs:312-317: known_types, the record id of each supported
\* type's definition
known_types(tbl, schema_id) ==
    LET entries == supported_type_entries(tbl, schema_id)
    IN  [t \in {u \in ObjectTypes : entries[u] # 0} |-> tbl[entries[t]].id.v]

\* data_table.rs:325-346: the try_for_each closure applied from the k-th
\* record pointer on; every ? returns the first error
RECURSIVE ForRecords(_, _, _, _, _)
ForRecords(tbl, known, records, k, out) ==
    IF k > Len(records) THEN ListOk(out)
    ELSE LET record      == tbl[records[k]]
             object_type == att_object_type_id_opt(record)
             types       == {t \in DOMAIN known :
                                object_type.some /\ known[t] = object_type.v}
             via         == IF types = {} THEN "generic" ELSE CHOOSE t \in types : TRUE
         IN  CASE object_type.kind = "err" -> ListErr(out, object_type.why)
               [] ~record.decodes -> ListErr(out, "projection failed")
               [] OTHER ->
                    ForRecords(tbl, known, records, k + 1,
                               Append(out, Projected(records[k], record, via)))

\* DataTable::show_timeline_for_records
show_timeline_for_records(tbl, schema_id, records, out) ==
    ForRecords(tbl, known_types(tbl, schema_id), records, 1, out)

\* the elements of a HashSet in the order its iterator yields them, which
\* follows the seed of the run's hasher
HashSetIter(set, n, seed) ==
    SelectSeq([k \in 1..n |-> IF seed % 2 = 0 THEN k ELSE n + 1 - k],
              LAMBDA k : k \in set)

\* a.union(&b): the elements of a, then those of b that are not in a
HashSetUnion(a, b, n, seed) ==
    HashSetIter(a, n, seed) \o HashSetIter(b \ a, n, seed)

\* data_table.rs:378-387: the records of the deleted pass
DeletedRecords(tbl, deleted_objects_id, seed) ==
    HashSetUnion(Range(ChildrenOf(tbl, deleted_objects_id)),
                 Range(entries_with_deleted_from_container_guid(tbl)),
                 Len(tbl), seed)

\* the record ids of every type definition, whatever the mode
TimelineTypesAlways(tbl, schema_id, show_all_objects) ==
    {tbl[k].id.v : k \in Range(all_type_entries(tbl, schema_id))}

\* data_table.rs:355-367: the record ids of the type definitions in scope
TimelineTypes(tbl, schema_id, show_all_objects) ==
    LET supported == supported_type_entries(tbl, schema_id)
        entries == IF show_all_objects
                   THEN Range(all_type_entries(tbl, schema_id))
                   ELSE {supported[t] : t \in ObjectTypes} \ {0}
    IN  {tbl[k].id.v : k \in entries}

\* DataTable::show_timeline
show_timeline(tbl, schema_id, deleted_objects_id, show_all_objects, include_deleted, seed) ==
    LET types   == TimelineTypes(tbl, schema_id, show_all_objects)
        regular == show_timeline_for_records(tbl, schema_id,
                                             entries_of_types(tbl, types), <<>>)
    IN  IF regular.kind # "ok" \/ ~include_deleted THEN regular
        ELSE LET deleted ==
                     show_timeline_for_records(tbl, schema_id,
                         DeletedRecords(tbl, deleted_objects_id, seed),
                         regular.emitted)
             IN  IF deleted.kind = "err"
                 THEN ListPanic(deleted.emitted, "called Result::unwrap() on an Err value")
                 ELSE deleted

\* data_table_ext.rs:123-134: type_record_ids, the record id of each type
\* record found; panicked names the .expect() that aborts, if one does
type_record_ids(tbl, map) ==
    LET found   == {t \in DOMAIN map : map[t] # 0}
        id(t)   == ds_record_id_index(tbl[map[t]])
    IN  CASE \E t \in found : id(t).kind = "err" ->
               [panicked |-> "unable to read record id", ids |-> <<>>]
          [] \E t \in found : ~id(t).some ->
               [panicked |-> "missing record id", ids |-> <<>>]
          [] OTHER -> [panicked |-> "", ids |-> [t \in found |-> id(t).v]]

\* data_table_ext.rs:136-164: the for loop of show_timeline from the k-th
\* row on
RECURSIVE ExtTimelineScan(_, _, _, _)
ExtTimelineScan(tbl, ids, k, out) ==
    IF k > Len(tbl) THEN ListOk(out)
    ELSE LET rec == tbl[k] IN
      IF ~rec.readable THEN ExtTimelineScan(tbl, ids, k + 1, out)
      ELSE LET t == ds_object_type_id_index(rec) IN
        CASE t.kind = "err" -> ExtTimelineScan(tbl, ids, k + 1, out)
          [] ~t.some -> ExtTimelineScan(tbl, ids, k + 1, out)
          [] ~(\E n \in DOMAIN ids : ids[n] = t.v /\ n = "Person") ->
               ExtTimelineScan(tbl, ids, k + 1, out)
          [] ~rec.decodes ->
               ListPanic(out, "called Result::unwrap() on an Err value")
          [] OTHER ->
               ExtTimelineScan(tbl, ids, k + 1, Append(out, Projected(k, rec, "Person")))

\* DataTableExt::show_timeline
show_timeline_ext(tbl, schema_id, seed) ==
    LET r == find_type_records_ext(tbl, schema_id, {"Person", "Computer"}, seed) IN
    CASE r.kind = "err"   -> ListErr(<<>>, r.why)
      [] r.kind = "panic" -> ListPanic(<<>>, r.why)
      [] OTHER ->
           LET m == type_record_ids(tbl, r.map)
           IN  IF m.panicked # "" THEN ListPanic(<<>>, m.panicked)
               ELSE ExtTimelineScan(tbl, m.ids, 1, <<>>)

\* the data tables a timeline is exported from: the schema anchor, the type
\* definitions of Person, of a type without a projection of its own and
\* (perhaps) of Computer, the deleted-objects container, and up to
\* MaxObjects other rows
ComputerId == IdAt(3)
ClassId == IdAt(4)
DeletedObjectsId == IdAt(60)

Stamps == {{}, {"pwd_last_set"}, {"last_logon"}, {"record_time", "pwd_last_set"}}

\* the other rows: of every type and place with a creation time and a
\* password-last-set time, a live Person with any of the stamps, and
\* records whose projection fails
TimedKinds ==
    [type : {I32Cell(PersonId), I32Cell(ComputerId), I32Cell(ClassId), NullInt},
     where : {"live", "deleted", "backref"},
     stamps : {{"record_time", "pwd_last_set"}}, decodes : {TRUE}]
    \cup [type : {I32Cell(PersonId)}, where : {"live"}, stamps : Stamps,
          decodes : BOOLEAN]
    \cup {[type |-> NullInt, where |-> "deleted", stamps |-> {"record_time"},
           decodes |-> FALSE]}

TimelineTable(with_computer, n, f) ==
    <<TimedRow(QuerySchemaRow, {}, FALSE),
      TimedRow(TypeRow(I32Cell(PersonId), "Person"), {}, FALSE),
      TimedRow(TypeRow(I32Cell(ClassId), "Container"), {}, FALSE)>>
    \o (IF with_computer
        THEN <<TimedRow(TypeRow(I32Cell(ComputerId), "Computer"), {}, FALSE)>>
        ELSE <<>>)
    \o <<TimedRow(QRow(TRUE, I32Cell(DeletedObjectsId), I32Cell(ContainerId),
                       TextCell("Deleted Objects"), I32Cell(ClassId), TRUE),
                  {"record_time"}, FALSE)>>
    \o [i \in 1..n |->
          TimedRow(QRow(TRUE, I32Cell(IdAt(100 + i)),
                        I32Cell(IF f[i].where = "deleted" THEN DeletedObjectsId
                                ELSE ContainerId),
                        TextCell("Other"), f[i].type, f[i].decodes),
                   f[i].stamps, f[i].where # "live")]

-----------------------------------------------------------------------------
(* sd_table.rs: SdTable::new, SdTable::descriptor *)

\* a row of the descriptor table: its sd_id cell and its sd_value cell;
\* readable says that with_value could read the cells
SdRow(ok, sd_id, sd_value) == [readable |-> ok, sd_id |-> sd_id, sd_value |-> sd_value]

SdIdCell(variant, n)     == [variant |-> variant, v |-> n]
SdValueCell(variant, bs) == [variant |-> variant, v |-> bs]

\* outcome of SdTable::new: descriptors maps each of ids to its blob
SdNotBuilt      == [kind |-> "idle",  ids |-> {}, descriptors |-> <<>>, why |-> ""]
SdBuilt(ids, f) == [kind |-> "ok",    ids |-> ids, descriptors |-> f,   why |-> ""]
SdPanic(msg)    == [kind |-> "panic", ids |-> {}, descriptors |-> <<>>, why |-> msg]

\* sd_table.rs:22-30: the sd_id of a row; unimplemented!() and .unwrap()
\* abort the process
sd_id_of(record) ==
    CASE ~record.readable -> "called Result::unwrap() on an Err value"
      [] record.sd_id.variant \in {"I16", "I32", "I64", "Currency"} -> ""
      [] OTHER -> "not implemented: no support for " \o record.sd_id.variant \o " as sd_id"

\* sd_table.rs:31-38: the sd_value of a row
sd_value_of(record) ==
    CASE ~record.readable -> "called Result::unwrap() on an Err value"
      [] record.sd_value.variant \in {"Long", "Binary", "LargeBinary"} -> ""
      [] OTHER -> "not implemented: no support for " \o record.sd_value.variant
                  \o " as sd_value"

\* .collect() into a HashMap: a later row replaces an earlier one with the
\* same id
RECURSIVE SdCollect(_, _, _, _)
SdCollect(rows, k, ids, f) ==
    IF k > Len(rows) THEN SdBuilt(ids, f)
    ELSE CASE sd_id_of(rows[k]) # "" -> SdPanic(sd_id_of(rows[k]))
           [] sd_value_of(rows[k]) # "" -> SdPanic(sd_value_of(rows[k]))
           [] OTHER ->
                LET id == rows[k].sd_id.v
                IN  SdCollect(rows, k + 1, ids \cup {id},
                              [i \in ids \cup {id} |->
                                  IF i = id THEN rows[k].sd_value.v ELSE f[i]])

\* SdTable::new
SdTable_new(rows) == SdCollect(rows, 1, {}, <<>>)

\* SecurityDescriptor::try_from(&[u8]): a blob decodes when it is not
\* truncated and its revision is the supported one
SecurityDescriptor_try_from(blob) ==
    IF Len(blob) >= 3 /\ blob[1] = 1
    THEN [ok |-> TRUE,  revision |-> blob[1], body |-> Tail(blob)]
    ELSE [ok |-> FALSE, revision |-> 0,       body |-> <<>>]

\* the alphabet of BASE64_STANDARD
Base64Alphabet ==
    <<"A", "B", "C", "D", "E", "F", "G", "H", "I", "J", "K", "L", "M", "N", "O", "P",
      "Q", "R", "S", "T", "U", "V", "W", "X", "Y", "Z", "a", "b", "c", "d", "e", "f",
      "g", "h", "i", "j", "k", "l", "m", "n", "o", "p", "q", "r", "s", "t", "u", "v",
      "w", "x", "y", "z", "0", "1", "2", "3", "4", "5", "6", "7", "8", "9", "+", "/">>

\* BASE64_STANDARD.encode(v): three bytes give four characters, the last
\* group is padded with '='
RECURSIVE Base64Encode(_)
Base64Encode(bytes) ==
    IF bytes = <<>> THEN <<>>
    ELSE LET n  == IF Len(bytes) >= 3 THEN 3 ELSE Len(bytes)
             b1 == bytes[1]
             b2 == IF n >= 2 THEN bytes[2] ELSE 0
             b3 == IF n >= 3 THEN bytes[3] ELSE 0
             c1 == b1 \div 4
             c2 == (b1 % 4) * 16 + b2 \div 16
             c3 == (b2 % 16) * 4 + b3 \div 64
             c4 == b3 % 64
         IN  <<Base64Alphabet[c1 + 1], Base64Alphabet[c2 + 1],
               IF n >= 2 THEN Base64Alphabet[c3 + 1] ELSE "=",
               IF n >= 3 THEN Base64Alphabet[c4 + 1] ELSE "=">>
             \o Base64Encode(SubSeq(bytes, n + 1, Len(bytes)))

\* outcome of SdTable::descriptor: None, Some(Ok(sd)) or Some(Err(why));
\* logged is what log::error! was given of the blob
SdNotAsked     == [kind |-> "idle", revision |-> 0, body |-> <<>>, logged |-> <<>>]
SdNone         == [kind |-> "none", revision |-> 0, body |-> <<>>, logged |-> <<>>]
SdOk(sd)       == [kind |-> "ok",   revision |-> sd.revision, body |-> sd.body,
                   logged |-> <<>>]
SdErr(encoded) == [kind |-> "err",  revision |-> 0, body |-> <<>>, logged |-> encoded]

\* SdTable::descriptor
descriptor(sd_table, sd_id) ==
    IF sd_id \notin sd_table.ids THEN SdNone
    ELSE LET v  == sd_table.descriptors[sd_id]
             sd == SecurityDescriptor_try_from(v)
         IN  IF sd.ok THEN SdOk(sd) ELSE SdErr(Base64Encode(v))

\* the descriptor tables: up to MaxObjects rows
Blobs == {<<1, 0, 4>>, <<1, 0, 4, 128, 255>>, <<1, 0>>, <<2, 0, 4>>}

SdIdCells == {SdIdCell("I16", 1), SdIdCell("I32", 1), SdIdCell("I64", 2),
              SdIdCell("Currency", 2), SdIdCell("Null", 0), SdIdCell("Text", 0)}

SdValueCells == {SdValueCell("Binary", b) : b \in Blobs}
                   \cup {SdValueCell("Long", <<1, 0, 4>>),
                         SdValueCell("LargeBinary", <<1, 0, 4>>),
                         SdValueCell("Null", <<>>), SdValueCell("Text", <<>>)}

SdRows == {SdRow(TRUE, i, v) : i \in SdIdCells, v \in SdValueCells}
             \cup {SdRow(FALSE, SdIdCell("I32", 1), SdValueCell("Binary", <<1, 0, 4>>))}

SdIds == {1, 2, 3}

-----------------------------------------------------------------------------
(* data_table.rs: the DataTable wrapper and its query methods *)

\* a row of the wrapped table as the queries see it: the cells the
\* listings, the tree and the timeline read (timed), the entry the index
\* holds for it (entry), and its attributes' display texts (attrs)
WrappedRow(timed, entry, attrs) == [timed |-> timed, entry |-> entry, attrs |-> attrs]

TimedView(tbl) == [k \in 1..Len(tbl) |-> tbl[k].timed]
EntryView(tbl) == [k \in 1..Len(tbl) |-> tbl[k].entry]
AttrsView(tbl) == [k \in 1..Len(tbl) |-> tbl[k].attrs]

\* Schema: the type definitions under the anchor, and those of the
\* supported types among them
Schema(tbl, schema_id) ==
    [supported |-> supported_type_entries(tbl, schema_id),
     all |-> all_type_entries(tbl, schema_id)]
NoSchema == [supported |-> NoTypes, all |-> <<>>]

\* ObjectTreeEntry: the table positions of the children of each record
ObjectTree(tbl) ==
    [k \in 1..Len(tbl) |->
        IF tbl[k].id.variant = "I32" THEN ChildrenOf(tbl, tbl[k].id.v) ELSE <<>>]

\* a query: the method called and its arguments; seed is not an argument
\* but the seed of the hashers the call creates
Query(fn, type, n, all, deleted, re, seed) ==
    [fn |-> fn, type |-> type, n |-> n, all |-> all, deleted |-> deleted,
     re |-> re, seed |-> seed]
NoQuery == Query("", "", 0, FALSE, FALSE, Regex(FALSE, {}), 0)

\* DataTable::show_type_names: the names of the children of the schema
\* record, in their order; the first name that cannot be read is returned
\* as the error
show_type_names(tbl, schema_id) ==
    LET children == ChildrenOf(tbl, schema_id)
        name(k)  == att_object_name2(tbl[children[k]])
        bad      == {k \in 1..Len(children) : name(k).kind = "err"}
    IN  IF bad # {}
        THEN ListErr(<<>>, name(CHOOSE k \in bad : \A j \in bad : k <= j).why)
        ELSE ListOk([k \in 1..Len(children) |-> name(k).v])

\* ObjectTreeEntry::to_tree: the nodes below a node down to max_depth, each
\* with its level, parents before children
RECURSIVE to_tree(_, _, _, _)
to_tree(tree, node, level, max_depth) ==
    LET below[i \in 0..Len(tree[node])] ==
            IF i = 0 THEN <<>>
            ELSE below[i - 1] \o to_tree(tree, tree[node][i], level + 1, max_depth)
    IN  <<[at |-> node, level |-> level]>>
        \o (IF level < max_depth THEN below[Len(tree[node])] ELSE <<>>)

\* DataTable::show_tree: the tree below the root, the first row
show_tree(tree, max_depth) == ListOk(to_tree(tree, 1, 0, max_depth))

\* the wrapped tables: a root, the rows of a timeline table below it, each
\* with its index entry and its attributes
RootId == IdAt(50)

WrappedKinds ==
    {[timed |-> [type |-> I32Cell(PersonId), where |-> "live",
                 stamps |-> {"pwd_last_set"}, decodes |-> TRUE],
      entry |-> [readable |-> TRUE, sid |-> <<21, 500>>, refetch |-> TRUE],
      attrs |-> [cn |-> Absent, sam |-> <<"x">>, desc |-> <<"x">>]],
     [timed |-> [type |-> I32Cell(ComputerId), where |-> "deleted",
                 stamps |-> {"record_time", "pwd_last_set"}, decodes |-> TRUE],
      entry |-> [readable |-> TRUE, sid |-> <<21, 501>>, refetch |-> TRUE],
      attrs |-> [cn |-> <<"x">>, sam |-> Absent, desc |-> <<"y", "\n">>]],
     [timed |-> [type |-> I32Cell(PersonId), where |-> "live",
                 stamps |-> {}, decodes |-> FALSE],
      entry |-> [readable |-> TRUE, sid |-> <<21, 500>>, refetch |-> FALSE],
      attrs |-> [cn |-> Absent, sam |-> Absent, desc |-> Absent]]}

WrappedTable(with_computer, n, f) ==
    LET timed == TimelineTable(with_computer, n, [i \in 1..n |-> f[i].timed])
        fixed == Len(timed) - n
    IN  <<WrappedRow(TimedRow(QRow(TRUE, I32Cell(RootId), NullInt, TextCell("Root"),
                                   NullInt, TRUE), {}, FALSE),
                     ERow(TRUE, I32Cell(RootId), <<>>, TRUE),
                     SearchRecord([cn |-> Absent, sam |-> Absent, desc |-> Absent]))>>
        \o [k \in 1..Len(timed) |->
              WrappedRow(
                  IF k = 1 THEN [timed[k] EXCEPT !.parent = I32Cell(RootId)]
                  ELSE timed[k],
                  IF k > fixed
                  THEN ERow(f[k - fixed].entry.readable, timed[k].id,
                            f[k - fixed].entry.sid, f[k - fixed].entry.refetch)
                  ELSE ERow(TRUE, timed[k].id, <<>>, TRUE),
                  IF k > fixed THEN SearchRecord(f[k - fixed].attrs)
                  ELSE SearchRecord([cn |-> Absent, sam |-> Absent, desc |-> Absent]))]

\* the arguments the queries are asked with
TreeDepths == {0, 2}
WrappedEntryIds == {EntryId("Id", IdAt(101)), EntryId("Rid", 500), EntryId("Rid", 502)}
WrappedPatterns == {Regex(TRUE, {<<"x">>}), Regex(TRUE, {<<"y", "\n">>})}

-----------------------------------------------------------------------------
(* State machines *)

AnchorIdle == anchorRes = NotRun /\ mainRes = NotRun
ColIdle    == columns = <<>> /\ colRes = ColNotRun
TypeIdle   == schema_record_id = 0 /\ typeRuns = <<>>
SidIdle    == /\ sidSrc = NoSid /\ sidCell = NullBinary
              /\ overflow_checks = TRUE /\ sidRes = NotRunText
TimeIdle   == tickCell = NullCurrency /\ timeRes = NotRunTime
ListIdle   == listReq = NoRequest /\ listRes = ListNotRun
DecIdle    == /\ decGetter = "i32" /\ decFound = TRUE
              /\ decCell = NullInt /\ decRes = NotRun
EntryIdle  == entryReq = NoEntryId /\ entryRes = EntryNotRun
SearchIdle == searchReq = NoSearch /\ searchRes = SearchNotRun
TimelineIdle == timelineReq = NoExport /\ timelineRes = ListNotRun
SdIdle     == sdBuilt = SdNotBuilt /\ sdReq = 0 /\ sdRes = SdNotAsked
QueriesIdle == /\ object_tree = <<>> /\ link_table = {} /\ schema = NoSchema
               /\ firstReq = NoQuery /\ firstRes = ListNotRun
               /\ lastReq = NoQuery /\ lastRes = ListNotRun

Init ==
    /\ \E n \in 0..MaxRecords : \E f \in [1..n -> RowKinds] :
          table = AnchorTable(n, f)
    /\ AnchorIdle
    /\ ColIdle
    /\ TypeIdle
    /\ SidIdle
    /\ TimeIdle
    /\ DecIdle
    /\ ListIdle
    /\ EntryIdle
    /\ SearchIdle
    /\ TimelineIdle
    /\ SdIdle
    /\ QueriesIdle

\* DataTableExt::from: resolve the schema anchor of the opened table
ResolveAnchor ==
    /\ anchorRes = NotRun
    /\ \E seed \in HashSeeds : anchorRes' = get_schema_record_id(table, seed)
    /\ UNCHANGED <<table, mainRes, colVars, typeVars, sidVars, timeVars,
                   decVars, listVars, entryVars, searchVars, timelineVars,
                   sdVars, queriesVars>>

\* main(): the schema record scan
MainResolveAnchor ==
    /\ mainRes = NotRun
    /\ mainRes' = main_schema_record_id(table)
    /\ UNCHANGED <<table, anchorRes, colVars, typeVars, sidVars, timeVars,
                   decVars, listVars, entryVars, searchVars, timelineVars,
                   sdVars, queriesVars>>

Next == ResolveAnchor \/ MainResolveAnchor

Spec == Init /\ [][Next]_vars

\* the columns of the opened table are listed and resolved once
InitColumns ==
    /\ \E dropped \in SUBSET Droppable, front \in BOOLEAN :
       \E n \in 0..MaxExtraColumns : \E extra \in [1..n -> ExtraNames] :
          columns = Listing(dropped, extra, front)
    /\ colRes = ColNotRun
    /\ table = <<>>
    /\ AnchorIdle
    /\ TypeIdle
    /\ SidIdle
    /\ TimeIdle
    /\ DecIdle
    /\ ListIdle
    /\ EntryIdle
    /\ SearchIdle
    /\ TimelineIdle
    /\ SdIdle
    /\ QueriesIdle

\* main(): build temporary_mapping and the ColumnInfoMapping
ResolveColumns ==
    /\ colRes = ColNotRun
    /\ colRes' = ColumnInfoMapping(columns)
    /\ UNCHANGED <<table, anchorVars, columns, typeVars, sidVars, timeVars,
                   decVars, listVars, entryVars, searchVars, timelineVars,
                   sdVars, queriesVars>>

NextColumns == ResolveColumns

SpecColumns == InitColumns /\ [][NextColumns]_vars

\* DataTableExt::from / DataTable::new: the wrapper exists once the anchor
\* is resolved, and holds its record id
InitTypes ==
    /\ \E n \in 0..MaxTypeRows, front \in BOOLEAN :
       \E f \in [1..n -> TypeRowKinds] :
          table = TypeTable(n, f, front)
    /\ \E seed \in HashSeeds :
          /\ get_schema_record_id(table, seed).kind = "ok"
          /\ schema_record_id = get_schema_record_id(table, seed).v
    /\ typeRuns = <<>>
    /\ AnchorIdle
    /\ ColIdle
    /\ SidIdle
    /\ TimeIdle
    /\ DecIdle
    /\ ListIdle
    /\ EntryIdle
    /\ SearchIdle
    /\ TimelineIdle
    /\ SdIdle
    /\ QueriesIdle

TypeRequests == (SUBSET ObjectTypes) \ {{}}

\* a resolution is run, and may be run again with the same arguments
MayRun(fn, req) ==
    /\ Len(typeRuns) < MaxRuns
    /\ typeRuns # <<>> => typeRuns[1].fn = fn /\ typeRuns[1].req = req

Ran(fn, req, res) ==
    /\ typeRuns' = Append(typeRuns, [fn |-> fn, req |-> req, res |-> res])
    /\ UNCHANGED <<table, schema_record_id, anchorVars, colVars, sidVars,
                   timeVars, decVars, listVars, entryVars, searchVars,
                   timelineVars, sdVars, queriesVars>>

FindTypeRecordsExt ==
    \E req \in TypeRequests, seed \in HashSeeds :
        /\ MayRun("find_type_records_ext", req)
        /\ Ran("find_type_records_ext", req,
               find_type_records_ext(table, schema_record_id, req, seed))

FindTypeRecords ==
    \E req \in TypeRequests :
        /\ MayRun("find_type_records", req)
        /\ Ran("find_type_records", req,
               find_type_records(table, schema_record_id, req))

ShowUsers ==
    \E seed \in HashSeeds :
        /\ MayRun("show_users", {"Person"})
        /\ Ran("show_users", {"Person"},
               show_users_type_record(table, schema_record_id, seed))

ShowTypedObjects ==
    \E object_type \in ObjectTypes :
        /\ MayRun("show_typed_objects", {object_type})
        /\ Ran("show_typed_objects", {object_type},
               show_typed_objects_type_record(table, schema_record_id, object_type))

\* the anchor lookup is run again on the table the wrapper was built from
ResolveAnchorAgain ==
    /\ anchorRes = NotRun
    /\ \E seed \in HashSeeds : anchorRes' = get_schema_record_id(table, seed)
    /\ UNCHANGED <<table, mainRes, colVars, typeVars, sidVars, timeVars,
                   decVars, listVars, entryVars, searchVars, timelineVars,
                   sdVars, queriesVars>>

NextTypes ==
    \/ FindTypeRecordsExt
    \/ FindTypeRecords
    \/ ShowUsers
    \/ ShowTypedObjects
    \/ ResolveAnchorAgain

SpecTypes == InitTypes /\ [][NextTypes]_vars

\* a record whose SID cell is about to be decoded
InitSid ==
    /\ \E r \in Revisions, a \in Authorities, n \in 0..MaxSubAuthorities :
       \E subs \in [1..n -> SubValues], len \in 0..(8 + 4 * n),
          layout \in {"le", "ntds"} :
          sidSrc = [revision |-> r, authority |-> a, subs |-> subs,
                    layout |-> layout, len |-> len]
    /\ \/ sidCell = BinaryCell(SubSeq(EncodeSid(sidSrc), 1, sidSrc.len))
       \/ sidCell = LargeBinaryCell(SubSeq(EncodeSid(sidSrc), 1, sidSrc.len))
       \/ sidSrc.len = 0 /\ sidCell \in {NullBinary, BadBinary}
    /\ overflow_checks \in BOOLEAN
    /\ sidRes = NotRunText
    /\ table = <<>>
    /\ AnchorIdle
    /\ ColIdle
    /\ TypeIdle
    /\ TimeIdle
    /\ DecIdle
    /\ ListIdle
    /\ EntryIdle
    /\ SearchIdle
    /\ TimelineIdle
    /\ SdIdle
    /\ QueriesIdle

\* DbRecord::ds_sidindex
DecodeSid ==
    /\ sidRes = NotRunText
    /\ sidRes' = define_sid_getter(sidCell, overflow_checks)
    /\ UNCHANGED <<table, anchorVars, colVars, typeVars, sidSrc, sidCell,
                   overflow_checks, timeVars, decVars, listVars, entryVars,
                   searchVars, timelineVars, sdVars, queriesVars>>

NextSid == DecodeSid

SpecSid == InitSid /\ [][NextSid]_vars

\* a record whose timestamp cell is about to be decoded
InitTime ==
    /\ tickCell \in {CurrencyCell(t) : t \in TickCounts}
                      \cup {NullCurrency, BadCurrency}
    /\ timeRes = NotRunTime
    /\ table = <<>>
    /\ AnchorIdle
    /\ ColIdle
    /\ TypeIdle
    /\ SidIdle
    /\ DecIdle
    /\ ListIdle
    /\ EntryIdle
    /\ SearchIdle
    /\ TimelineIdle
    /\ SdIdle
    /\ QueriesIdle

\* DbRecord::ds_last_logon_index and the other datetime getters
DecodeTime ==
    /\ timeRes = NotRunTime
    /\ timeRes' = define_datetime_getter(tickCell)
    /\ UNCHANGED <<table, anchorVars, colVars, typeVars, sidVars, tickCell,
                   decVars, listVars, entryVars, searchVars, timelineVars,
                   sdVars, queriesVars>>

NextTime == DecodeTime

SpecTime == InitTime /\ [][NextTime]_vars

\* a cell of any variant is about to be handed to one of the getters
InitDecode ==
    /\ decGetter \in Getters
    /\ decFound \in BOOLEAN
    /\ decGetter = "timestamp" => decFound
    /\ decCell \in CellsFor(decGetter)
    /\ ~decFound => decCell = NullCell(decGetter)
    /\ decRes = NotCalled(decGetter)
    /\ table = <<>>
    /\ AnchorIdle
    /\ ColIdle
    /\ TypeIdle
    /\ sidSrc = NoSid /\ sidCell = NullBinary /\ sidRes = NotRunText
    /\ overflow_checks \in BOOLEAN
    /\ TimeIdle
    /\ ListIdle
    /\ EntryIdle
    /\ SearchIdle
    /\ TimelineIdle
    /\ SdIdle
    /\ QueriesIdle

\* the getter is called on the cell
DecodeCell ==
    /\ decRes = NotCalled(decGetter)
    /\ decRes' = Decode(decGetter, decFound, decCell, overflow_checks)
    /\ UNCHANGED <<table, anchorVars, colVars, typeVars, sidVars, timeVars,
                   decGetter, decFound, decCell, listVars, entryVars,
                   searchVars, timelineVars, sdVars, queriesVars>>

NextDecode == DecodeCell

SpecDecode == InitDecode /\ [][NextDecode]_vars

\* a wrapper over an opened table, about to answer a typed listing
InitListing ==
    /\ \E person_id \in {I32Cell(PersonId), NullInt}, with_group \in BOOLEAN,
          n \in 0..MaxObjects :
       \E f \in [1..n -> ObjectKinds] :
          table = QueryTable(person_id, with_group, n, f)
    /\ schema_record_id = SchemaId
    /\ typeRuns = <<>>
    /\ ListIdle
    /\ AnchorIdle
    /\ ColIdle
    /\ SidIdle
    /\ TimeIdle
    /\ DecIdle
    /\ EntryIdle
    /\ SearchIdle
    /\ TimelineIdle
    /\ SdIdle
    /\ QueriesIdle

Listed(fn, type, res) ==
    /\ listRes = ListNotRun
    /\ listReq' = [fn |-> fn, type |-> type]
    /\ listRes' = res
    /\ UNCHANGED <<table, anchorVars, colVars, typeVars, sidVars, timeVars,
                   decVars, entryVars, searchVars, timelineVars, sdVars,
                   queriesVars>>

\* DataTableExt::show_users
ListUsers ==
    \E seed \in HashSeeds :
        Listed("show_users", "Person", show_users(table, schema_record_id, seed))

\* DataTable::show_users / show_groups / show_computers
ListTypedObjects ==
    \E object_type \in ObjectTypes :
        Listed("show_typed_objects", object_type,
               show_typed_objects(table, schema_record_id, object_type))

NextListing == ListUsers \/ ListTypedObjects

SpecListing == InitListing /\ [][NextListing]_vars

\* an indexed table, about to answer an entry lookup
InitEntry ==
    /\ \E n \in 0..MaxObjects : \E f \in [1..n -> EntryKinds] :
          table = EntryTable(n, f)
    /\ entryReq = NoEntryId
    /\ entryRes = EntryNotRun
    /\ AnchorIdle
    /\ ColIdle
    /\ TypeIdle
    /\ SidIdle
    /\ TimeIdle
    /\ DecIdle
    /\ ListIdle
    /\ SearchIdle
    /\ TimelineIdle
    /\ SdIdle
    /\ QueriesIdle

\* DataTable::show_entry
ShowEntry ==
    /\ entryRes = EntryNotRun
    /\ \E entry_id \in EntryIds :
          /\ entryReq' = entry_id
          /\ entryRes' = show_entry(table, entry_id)
    /\ UNCHANGED <<table, anchorVars, colVars, typeVars, sidVars, timeVars,
                   decVars, listVars, searchVars, timelineVars, sdVars,
                   queriesVars>>

NextEntry == ShowEntry

SpecEntry == InitEntry /\ [][NextEntry]_vars

\* an indexed table, about to be searched
InitSearch ==
    /\ \E n \in 0..MaxObjects : \E f \in [1..n -> SearchKinds] :
          table = [i \in 1..n |-> SearchRecord(f[i])]
    /\ searchReq = NoSearch
    /\ searchRes = SearchNotRun
    /\ AnchorIdle
    /\ ColIdle
    /\ TypeIdle
    /\ SidIdle
    /\ TimeIdle
    /\ DecIdle
    /\ ListIdle
    /\ EntryIdle
    /\ TimelineIdle
    /\ SdIdle
    /\ QueriesIdle

\* DataTable::search_entries
SearchEntries ==
    /\ searchRes = SearchNotRun
    /\ \E re \in Patterns, seed \in HashSeeds :
          /\ searchReq' = [re |-> re, seed |-> seed]
          /\ searchRes' = search_entries(table, re, seed)
    /\ UNCHANGED <<table, anchorVars, colVars, typeVars, sidVars, timeVars,
                   decVars, listVars, entryVars, timelineVars, sdVars,
                   queriesVars>>

NextSearch == SearchEntries

SpecSearch == InitSearch /\ [][NextSearch]_vars

\* an opened table, about to export a timeline
InitTimeline ==
    /\ \E with_computer \in BOOLEAN, n \in 0..MaxObjects :
       \E f \in [1..n -> TimedKinds] :
          table = TimelineTable(with_computer, n, f)
    /\ schema_record_id = SchemaId
    /\ typeRuns = <<>>
    /\ timelineReq = NoExport
    /\ timelineRes = ListNotRun
    /\ AnchorIdle
    /\ ColIdle
    /\ SidIdle
    /\ TimeIdle
    /\ DecIdle
    /\ ListIdle
    /\ EntryIdle
    /\ SearchIdle
    /\ SdIdle
    /\ QueriesIdle

Exported(fn, all, deleted, seed, res) ==
    /\ timelineRes = ListNotRun
    /\ timelineReq' = [fn |-> fn, all |-> all, deleted |-> deleted, seed |-> seed]
    /\ timelineRes' = res
    /\ UNCHANGED <<table, anchorVars, colVars, typeVars, sidVars, timeVars,
                   decVars, listVars, entryVars, searchVars, sdVars,
                   queriesVars>>

\* DataTable::show_timeline
ShowTimeline ==
    \E all \in BOOLEAN, deleted \in BOOLEAN, seed \in HashSeeds :
        Exported("DataTable::show_timeline", all, deleted, seed,
                 show_timeline(table, schema_record_id, DeletedObjectsId,
                               all, deleted, seed))

\* DataTableExt::show_timeline
ShowTimelineExt ==
    \E seed \in HashSeeds :
        Exported("DataTableExt::show_timeline", FALSE, FALSE, seed,
                 show_timeline_ext(table, schema_record_id, seed))

NextTimeline == ShowTimeline \/ ShowTimelineExt

SpecTimeline == InitTimeline /\ [][NextTimeline]_vars

\* a descriptor table read from the file, the wrapper not yet built
InitSd ==
    /\ \E n \in 0..MaxObjects : table \in [1..n -> SdRows]
    /\ sdBuilt = SdNotBuilt
    /\ sdReq = 0
    /\ sdRes = SdNotAsked
    /\ AnchorIdle
    /\ ColIdle
    /\ TypeIdle
    /\ SidIdle
    /\ TimeIdle
    /\ DecIdle
    /\ ListIdle
    /\ EntryIdle
    /\ SearchIdle
    /\ TimelineIdle
    /\ QueriesIdle

\* SdTable::new
NewSdTable ==
    /\ sdBuilt = SdNotBuilt
    /\ sdBuilt' = SdTable_new(table)
    /\ UNCHANGED <<table, sdReq, sdRes, anchorVars, colVars, typeVars, sidVars,
                   timeVars, decVars, listVars, entryVars, searchVars,
                   timelineVars, queriesVars>>

\* SdTable::descriptor
Descriptor ==
    /\ sdBuilt.kind = "ok"
    /\ sdRes = SdNotAsked
    /\ \E sd_id \in SdIds :
          /\ sdReq' = sd_id
          /\ sdRes' = descriptor(sdBuilt, sd_id)
    /\ UNCHANGED <<table, sdBuilt, anchorVars, colVars, typeVars, sidVars,
                   timeVars, decVars, listVars, entryVars, searchVars,
                   timelineVars, queriesVars>>

NextSd == NewSdTable \/ Descriptor

SpecSd == InitSd /\ [][NextSd]_vars

\* DataTable::new: the wrapper holds the table, the anchor, the tree, the
\* links and the schema it was given
InitQueries ==
    /\ \E n \in 0..MaxObjects : \E f \in [1..n -> WrappedKinds] :
          table = WrappedTable(TRUE, n, f)
    /\ schema_record_id = SchemaId
    /\ object_tree = ObjectTree(TimedView(table))
    /\ link_table = {<<table[k].timed.id.v, table[k + 1].timed.id.v>> :
                        k \in 1..(Len(table) - 1)}
    /\ schema = Schema(TimedView(table), schema_record_id)
    /\ typeRuns = <<>>
    /\ firstReq = NoQuery
    /\ firstRes = ListNotRun
    /\ lastReq = NoQuery
    /\ lastRes = ListNotRun
    /\ AnchorIdle
    /\ ColIdle
    /\ SidIdle
    /\ TimeIdle
    /\ DecIdle
    /\ ListIdle
    /\ EntryIdle
    /\ SearchIdle
    /\ TimelineIdle
    /\ SdIdle

\* a query method that mutates the wrapper it reads: it drops the schema
Consumed(req, res) ==
    /\ lastReq' = req
    /\ lastRes' = res
    /\ firstReq' = IF firstReq = NoQuery THEN req ELSE firstReq
    /\ firstRes' = IF firstReq = NoQuery THEN res ELSE firstRes
    /\ schema' = NoSchema
    /\ UNCHANGED <<table, object_tree, link_table, anchorVars, colVars,
                   typeVars, sidVars, timeVars, decVars, listVars, entryVars,
                   searchVars, timelineVars, sdVars>>

\* a query method: it takes &self, answers on the output and returns
Answered(req, res) ==
    /\ lastReq' = req
    /\ lastRes' = res
    /\ firstReq' = IF firstReq = NoQuery THEN req ELSE firstReq
    /\ firstRes' = IF firstReq = NoQuery THEN res ELSE firstRes
    /\ UNCHANGED <<table, object_tree, link_table, schema, anchorVars, colVars,
                   typeVars, sidVars, timeVars, decVars, listVars, entryVars,
                   searchVars, timelineVars, sdVars>>

\* DataTable::show_users / show_groups / show_computers
QueryTypedObjects ==
    \E type \in ObjectTypes :
        Answered(Query("show_typed_objects", type, 0, FALSE, FALSE, Regex(FALSE, {}), 0),
                 show_typed_objects(TimedView(table), schema_record_id, type))

\* DataTable::show_type_names
QueryTypeNames ==
    Answered(Query("show_type_names", "", 0, FALSE, FALSE, Regex(FALSE, {}), 0),
             show_type_names(TimedView(table), schema_record_id))

\* DataTable::show_tree
QueryTree ==
    \E max_depth \in TreeDepths :
        Answered(Query("show_tree", "", max_depth, FALSE, FALSE, Regex(FALSE, {}), 0),
                 show_tree(object_tree, max_depth))

\* DataTable::show_entry
QueryEntry ==
    \E entry_id \in WrappedEntryIds :
        Answered(Query("show_entry", entry_id.by, entry_id.n, FALSE, FALSE,
                       Regex(FALSE, {}), 0),
                 show_entry(EntryView(table), entry_id))

\* DataTable::search_entries
QuerySearch ==
    \E re \in WrappedPatterns, seed \in HashSeeds :
        Answered(Query("search_entries", "", 0, FALSE, FALSE, re, seed),
                 search_entries(AttrsView(table), re, seed))

\* DataTable::show_timeline
QueryTimeline ==
    \E all \in BOOLEAN, deleted \in BOOLEAN, seed \in HashSeeds :
        Answered(Query("show_timeline", "", 0, all, deleted, Regex(FALSE, {}), seed),
                 show_timeline(TimedView(table), schema_record_id, DeletedObjectsId,
                               all, deleted, seed))

NextQueries ==
    \/ QueryTypedObjects
    \/ QueryTypeNames
    \/ QueryTree
    \/ QueryEntry
    \/ QuerySearch
    \/ QueryTimeline

SpecQueries == InitQueries /\ [][NextQueries]_vars

-----------------------------------------------------------------------------
(* Schema anchor: properties *)

\* a row the scan can read whose secondary name is the text "Schema"
IsSchemaRow(r) ==
    r.readable /\ r.name2.variant \in {"Text", "LargeText"} /\ r.name2.v = "Schema"

SchemaRows(tbl) == {i \in 1..Len(tbl) : IsSchemaRow(tbl[i])}

\* i is the earliest "Schema" row of the table
IsFirstSchemaRow(tbl, i) ==
    i \in SchemaRows(tbl) /\ \A j \in SchemaRows(tbl) : i <= j

\* every readable row before i has a text name, so the scan of
\* get_schema_record_id reaches row i
CleanPrefix(tbl, i) ==
    \A j \in 1..(i - 1) :
        tbl[j].readable => tbl[j].name2.variant \in {"Text", "LargeText"}

\* C1: an anchor id returned by the lookup (DataTableExt and main alike) is
\* the record id of the earliest row in table order named "Schema", also
\* when several rows carry that name; and when nothing before that row
\* stops the scan, the lookup does return it.
C1_FirstMatchWins ==
    /\ anchorRes.kind = "ok" =>
          \E i \in 1..Len(table) :
              /\ IsFirstSchemaRow(table, i)
              /\ table[i].id.variant = "I32"
              /\ anchorRes.some /\ anchorRes.v = table[i].id.v
    /\ mainRes.kind = "ok" =>
          \E i \in 1..Len(table) :
              /\ IsFirstSchemaRow(table, i)
              /\ table[i].id.variant = "I32"
              /\ mainRes.some /\ mainRes.v = table[i].id.v
    /\ \A i \in 1..Len(table) :
          ( /\ IsFirstSchemaRow(table, i)
            /\ CleanPrefix(table, i)
            /\ table[i].id.variant = "I32" ) =>
              /\ anchorRes # NotRun => anchorRes = OkSome(table[i].id.v)
              /\ (mainRes # NotRun /\ \A j \in 1..i : table[j].readable)
                    => mainRes = OkSome(table[i].id.v)

\* both lookups have returned an anchor from a table with two "Schema" rows
C1_Witness ==
    /\ Cardinality(SchemaRows(table)) >= 2
    /\ anchorRes.kind = "ok"
    /\ mainRes.kind = "ok"

\* C2: with no row named "Schema" the lookup ends in the error value
\* MissingSchemaRecord, handed back to the caller.
C2_MissingSchemaRecord ==
    SchemaRows(table) = {} =>
        /\ anchorRes # NotRun => anchorRes = Err("MissingSchemaRecord")
        /\ mainRes # NotRun => mainRes = Err("MissingSchemaRecord")

\* C24: when a readable row named "Schema" with a record id exists, the
\* lookup returns the id of the earliest one, whatever precedes it: a row
\* without a secondary name, with a name of an unexpected variant, or a row
\* that cannot be read is passed over and neither aborts nor ends the scan.
C24_SchemaIsReached ==
    \A i \in 1..Len(table) :
        (IsFirstSchemaRow(table, i) /\ table[i].id.variant = "I32") =>
            /\ anchorRes # NotRun => anchorRes = OkSome(table[i].id.v)
            /\ mainRes # NotRun => mainRes = OkSome(table[i].id.v)

-----------------------------------------------------------------------------
(* Column resolution: properties *)

\* C3: column resolution maps every required name to exactly one column id
\* of the table, a column of exactly that name, and when a required column
\* is absent it fails with the error value MissingColumn.
C3_ColumnResolution ==
    colRes # ColNotRun =>
        IF RequiredNames \subseteq {columns[i] : i \in 1..Len(columns)}
        THEN /\ colRes.kind = "ok"
             /\ \A n \in RequiredNames :
                   /\ colRes.map[n] \in 0..(Len(columns) - 1)
                   /\ columns[colRes.map[n] + 1] = n
        ELSE /\ colRes.kind = "err"
             /\ colRes.why = "MissingColumn"

-----------------------------------------------------------------------------
(* Type definitions: properties *)

\* row i of the table is a type definition for t: a readable child of the
\* schema anchor whose secondary name is t
IsTypeDef(i, t) ==
    /\ table[i].readable
    /\ table[i].parent = I32Cell(schema_record_id)
    /\ table[i].name2.variant \in {"Text", "LargeText"}
    /\ table[i].name2.v = t

FinderRuns ==
    {k \in 1..Len(typeRuns) :
        typeRuns[k].fn \in {"find_type_records_ext", "find_type_records"}}

\* C4: the keys of the map find_type_records returns are requested types,
\* and the row mapped to a key is a child of the schema anchor named like
\* the key; a row elsewhere in the tree that carries a requested name is
\* never in the map.
C4_TypeRecordsAreChildren ==
    \A k \in FinderRuns :
        typeRuns[k].res.kind = "ok" =>
            \A t \in ObjectTypes :
                typeRuns[k].res.map[t] # 0 =>
                    /\ t \in typeRuns[k].req
                    /\ typeRuns[k].res.map[t] \in 1..Len(table)
                    /\ IsTypeDef(typeRuns[k].res.map[t], t)

\* find_type_records of DataTableExt has returned a type record from a
\* table in which a row outside the anchor's children carries a requested
\* type name
C4_Witness ==
    \E k \in FinderRuns :
        /\ typeRuns[k].fn = "find_type_records_ext"
        /\ typeRuns[k].res.kind = "ok"
        /\ \E t \in typeRuns[k].req : typeRuns[k].res.map[t] # 0
        /\ \E i \in 1..Len(table), t \in typeRuns[k].req :
              /\ table[i].readable
              /\ table[i].name2 = TextCell(t)
              /\ table[i].parent = I32Cell(OtherParentId)

\* C5: when a requested supported type has no type definition among the
\* children of the schema anchor, type resolution fails with a typed error;
\* it does not return successfully without that type.
C5_MissingTypeFails ==
    \A k \in 1..Len(typeRuns) :
        (\E t \in typeRuns[k].req : \A i \in 1..Len(table) : ~IsTypeDef(i, t))
            => typeRuns[k].res.kind = "err"

-----------------------------------------------------------------------------
(* SID decoding: properties *)

\* S-<revision>-<authority>-<s1>-...-<sN> of the identifier the cell holds
SidString(src) ==
    "S-" \o ToString(src.revision) \o "-" \o ToString(src.authority) \o "-"
        \o Join([k \in 1..Len(src.subs) |-> ToString(src.subs[k])], 1)

\* the cell is binary and holds every byte of the identifier
WholeSid ==
    /\ sidCell.variant \in {"Binary", "LargeBinary"}
    /\ Len(sidSrc.subs) >= 1
    /\ sidSrc.len = 8 + 4 * Len(sidSrc.subs)

\* C7: a cell with N >= 1 sub-authorities, all of them stored little-endian,
\* decodes to exactly S-r-A-s1-...-sN.
C7_SidAllLittleEndian ==
    (sidRes # NotRunText /\ WholeSid /\ sidSrc.layout = "le")
        => sidRes = OkText(SidString(sidSrc))

\* C7 as amended: a cell with N >= 1 sub-authorities, the first N-1 stored
\* little-endian and the last one big-endian, decodes to exactly
\* S-r-A-s1-...-sN.
C7_SidLastBigEndian ==
    (sidRes # NotRunText /\ WholeSid /\ sidSrc.layout = "ntds")
        => sidRes = OkText(SidString(sidSrc))

\* a whole identifier with two sub-authorities, the last one big-endian and
\* not a byte palindrome, has been decoded
C7_Witness ==
    /\ sidRes.kind = "ok"
    /\ WholeSid
    /\ sidSrc.layout = "ntds"
    /\ Len(sidSrc.subs) = 2
    /\ sidSrc.subs[2] = 500

\* the blob is shorter than its header and declared count require
Truncated(b) == Len(b) < 8 \/ Len(b) < 8 + 4 * b[2]

\* C8: a blob shorter than 8 + 4*N bytes makes the getter return a decode
\* error, never a string built from the sub-authorities that were readable.
C8_TruncatedSidFails ==
    ( /\ sidRes # NotRunText
      /\ sidCell.variant \in {"Binary", "LargeBinary"}
      /\ Truncated(sidCell.v) )
        => sidRes.kind = "err"

\* a blob that declares two sub-authorities and holds only the first has
\* been refused
C8_Witness ==
    /\ sidRes.kind = "err"
    /\ sidCell.variant = "Binary"
    /\ Len(sidCell.v) >= 12
    /\ Truncated(sidCell.v)

\* C23: for a binary cell that holds the whole header and declares no
\* sub-authority, the getter does not abort and returns either the string
\* S-<revision>-<authority> without sub-authorities or a decode error.
C23_NoSubAuthorities ==
    ( /\ sidRes # NotRunText
      /\ sidCell.variant \in {"Binary", "LargeBinary"}
      /\ Len(sidCell.v) >= 8
      /\ sidCell.v[2] = 0 )
        => /\ sidRes.kind # "panic"
           /\ sidRes.kind = "ok" =>
                 sidRes.v = "S-" \o ToString(sidSrc.revision) \o "-"
                            \o ToString(sidSrc.authority)

-----------------------------------------------------------------------------
(* Timestamps: properties *)

\* the tick count (100 ns units) from 1601-01-01T00:00:00Z to a date and
\* time whose nanoseconds are whole ticks
TicksSinceEpoch(dt) ==
    LET d == dt.day - from_ymd(1601, 1, 1)
    IN  IF d >= 0 THEN I64(FALSE, d, dt.sec, dt.nano \div 100)
        ELSE IF dt.nano # 0
             THEN I64(TRUE, -d - 1, 86399 - dt.sec, (1000000000 - dt.nano) \div 100)
             ELSE IF dt.sec # 0 THEN I64(TRUE, -d - 1, 86400 - dt.sec, 0)
                  ELSE I64(TRUE, -d, 0, 0)

\* a tick count rounded toward zero to whole microseconds
WholeMicroseconds(t) ==
    LET ticks == t.ticks - (t.ticks % 10)
    IN  I64(t.neg /\ (t.days # 0 \/ t.secs # 0 \/ ticks # 0), t.days, t.secs, ticks)

\* the date 1601-01-01 + t is one chrono cannot hold
DateOutOfRange(t) ==
    LET d == IF t.neg THEN from_ymd(1601, 1, 1) - t.days - 1
             ELSE from_ymd(1601, 1, 1) + t.days
    IN  d < NaiveDateMinDay \/ d > NaiveDateMaxDay

TickCellDecoded == timeRes # NotRunTime /\ tickCell.variant = "Currency"

\* C9: for every non-null tick count t the datetime getter returns exactly
\* 1601-01-01T00:00:00Z plus t x 100 ns, losing no sub-microsecond tick; for
\* t = 0 it returns 1601-01-01T00:00:00Z.
C9_TimestampIsExact ==
    TickCellDecoded =>
        /\ timeRes.kind = "ok" /\ timeRes.some
        /\ timeRes.v.nano % 100 = 0
        /\ TicksSinceEpoch(timeRes.v) = tickCell.v
        /\ tickCell.v = ZeroTicks => timeRes.v = DateTime(from_ymd(1601, 1, 1), 0, 0)

-----------------------------------------------------------------------------
(* Primitive decoders: properties *)

\* the variants the decoders accept, as the specification lists them
AcceptedVariants(getter) ==
    CASE getter = "i32" -> {"I32", "I64"}
      [] getter = "str" -> {"Text", "LargeText"}
      [] getter \in {"bin", "sid"} -> {"Binary", "LargeBinary"}
      [] OTHER -> {"Currency"}

\* the getter has been called (no getter returns what NotCalled stands for)
CellDecoded == decRes # NotCalled(decGetter)

\* C11: every primitive decoder (integer, text, binary/hash, SID, timestamp)
\* answers a cell whose variant is neither null nor one it accepts with the
\* error InvalidValueDetected, and no decoder turns a value of an unexpected
\* variant into a result.
C11_UnexpectedVariantFails ==
    CellDecoded /\ decFound =>
        /\ decCell.variant \notin AcceptedVariants(decGetter) \cup {"Null"} =>
              decRes.kind = "err" /\ decRes.why = "InvalidValueDetected"
        /\ decRes.kind = "ok" /\ decRes.some =>
              decCell.variant \in AcceptedVariants(decGetter)

\* the hash getter has refused a text cell
C11_Witness ==
    /\ CellDecoded
    /\ decGetter = "bin"
    /\ decCell = [variant |-> "Text", v |-> <<171, 5>>]
    /\ decRes = ErrText("InvalidValueDetected")

-----------------------------------------------------------------------------
(* Queries: properties *)

\* the table position of the defining record of a type: the first child of
\* the schema anchor that carries the type's name
TypeRecordAt(tbl, type) ==
    LET defs == {k \in 1..Len(tbl) :
                    /\ tbl[k].readable
                    /\ tbl[k].parent = I32Cell(SchemaId)
                    /\ tbl[k].name2 = TextCell(type)}
    IN  IF defs = {} THEN 0 ELSE CHOOSE k \in defs : \A j \in defs : k <= j

\* the rows whose object-type id is present and is the record id of the
\* type's defining record
RowsOfType(tbl, type) ==
    LET d == TypeRecordAt(tbl, type)
    IN  IF d = 0 THEN {}
        ELSE {k \in 1..Len(tbl) :
                 /\ tbl[k].readable
                 /\ tbl[k].type.variant = "I32"
                 /\ tbl[k].id.variant = "I32"
                 /\ tbl[d].id.variant = "I32"
                 /\ tbl[k].type.v = tbl[d].id.v}

NoRepeats(seq) == \A i, j \in 1..Len(seq) : seq[i] = seq[j] => i = j

\* C13: a typed listing that completes has emitted exactly one object for
\* each record whose object-type id is present and equals the record id of
\* the type's defining record, and no object for any other record, records
\* without an object-type id included.
C13_ListingIsTheType ==
    listRes.kind = "ok" =>
        /\ Range(listRes.emitted) = RowsOfType(table, listReq.type)
        /\ NoRepeats(listRes.emitted)

\* the type's defining record is found and has a record id
TypeResolves(tbl, type) ==
    /\ TypeRecordAt(tbl, type) # 0
    /\ tbl[TypeRecordAt(tbl, type)].id.variant = "I32"

\* C14: in a typed listing a decode failure on one record is caught at that
\* record: the record is skipped, every other record of the type is still
\* emitted and the listing completes; it neither ends early nor aborts.
C14_BadRecordIsSkipped ==
    listRes.kind # "idle" /\ TypeResolves(table, listReq.type) =>
        /\ listRes.kind = "ok"
        /\ Range(listRes.emitted) =
              {k \in RowsOfType(table, listReq.type) : table[k].decodes}

\* the rows a lookup asks for
Matches(tbl, entry_id) ==
    {k \in 1..Len(tbl) :
        /\ tbl[k].readable
        /\ IF entry_id.by = "Id" THEN tbl[k].id = I32Cell(entry_id.n)
           ELSE tbl[k].sid # <<>> /\ tbl[k].sid[Len(tbl[k].sid)] = entry_id.n}

\* C15: show_entry by record id renders the record with that id, and by RID
\* a record whose security identifier ends in that RID; when no record
\* matches it prints "no matching object found", renders no entry and
\* returns success.
C15_EntryLookup ==
    entryRes.kind # "idle" =>
        /\ entryRes.rendered # 0 =>
              entryRes.kind = "ok" /\ entryRes.rendered \in Matches(table, entryReq)
        /\ Matches(table, entryReq) = {} =>
              entryRes = EntryOk("no matching object found", 0)
        /\ Matches(table, entryReq) # {} =>
              entryRes.printed # "no matching object found"

\* a lookup by RID without a match has printed the message and succeeded
C15_Witness ==
    /\ entryReq = EntryId("Rid", 502)
    /\ Len(table) = 2
    /\ entryRes = EntryOk("no matching object found", 0)

\* the attributes of a record whose display text the pattern matches
MatchedIn(rec, re) == {a \in DOMAIN rec : rec[a] # Absent /\ rec[a] \in re.matches}

\* the rows of the search output stand for increasing table positions
InTableOrder(rows) ==
    \A i, j \in 1..Len(rows) : i < j => rows[i].at < rows[j].at

\* C16: free-text search outputs exactly the records that have at least one
\* attribute whose display text matches the pattern, each once and in table
\* order; the header is the fixed prefix (record id, parent id, display
\* name, relative name, category) followed by every other attribute matched
\* in some output row, each column exactly once; every output row has one
\* cell per header column, empty when the record lacks the attribute.
C16_SearchIsTabular ==
    searchRes.kind = "ok" =>
        LET hdr  == searchRes.header
            rows == searchRes.rows
            hits == {k \in 1..Len(table) : MatchedIn(table[k], searchReq.re) # {}}
        IN  /\ {rows[r].at : r \in 1..Len(rows)} = hits
            /\ InTableOrder(rows)
            /\ SubSeq(hdr, 1, Len(FixedColumns)) = FixedColumns
            /\ Range(hdr) = Range(FixedColumns) \cup
                  UNION {MatchedIn(table[k], searchReq.re) : k \in hits}
            /\ NoRepeats(hdr)
            /\ \A r \in 1..Len(rows) :
                  /\ Len(rows[r].cells) = Len(hdr)
                  /\ \A c \in 1..Len(hdr) :
                        (rows[r].cells[c] = <<>>) <=> (table[rows[r].at][hdr[c]] = Absent)

\* two records matched on different attributes, one of them a fixed column
\* and one matched in both: seven columns, and a row with empty cells
C16_Witness ==
    /\ searchRes.kind = "ok"
    /\ Len(searchRes.rows) = 2
    /\ Len(searchRes.header) = 7
    /\ \E a \in MatchedIn(table[1], searchReq.re) : a \in MatchedIn(table[2], searchReq.re)
    /\ \E r \in 1..2 : \E c \in 1..7 : searchRes.rows[r].cells[c] = <<>>

-----------------------------------------------------------------------------
(* Timeline export: properties *)

\* the rows whose object-type id is the record id of a type definition
\* under the schema anchor
RowsOfAnyType(tbl) ==
    {k \in 1..Len(tbl) :
        /\ tbl[k].readable
        /\ tbl[k].type.variant = "I32"
        /\ \E d \in 1..Len(tbl) : /\ tbl[d].readable
                                  /\ tbl[d].parent = I32Cell(SchemaId)
                                  /\ tbl[d].id = tbl[k].type}

\* the rows of the supported types
RowsOfSupportedTypes(tbl) == UNION {RowsOfType(tbl, t) : t \in ObjectTypes}

\* the rows under the deleted-objects container, and the rows whose
\* deleted-from-container back-reference resolves to it
DeletedChildren(tbl) ==
    {k \in 1..Len(tbl) : tbl[k].readable /\ tbl[k].parent = I32Cell(DeletedObjectsId)}
DeletedBackReferenced(tbl) ==
    {k \in 1..Len(tbl) : tbl[k].readable /\ tbl[k].deleted_from}

\* the records the export asked for covers
InScope ==
    (IF timelineReq.all THEN RowsOfAnyType(table) ELSE RowsOfSupportedTypes(table))
    \cup (IF timelineReq.deleted
          THEN DeletedChildren(table) \cup DeletedBackReferenced(table)
          ELSE {})

\* the projection a record is to go through: its type's when the type is
\* supported, the generic one otherwise
ProjectionOf(tbl, k) ==
    IF \E t \in ObjectTypes : k \in RowsOfType(tbl, t)
    THEN CHOOSE t \in ObjectTypes : k \in RowsOfType(tbl, t)
    ELSE "generic"

\* the places of the output that are about the record at table position k
ExportsOf(k) ==
    {i \in 1..Len(timelineRes.emitted) : timelineRes.emitted[i].at = k}

\* the number of lines the output has for a record and a timestamp attribute
LinesFor(k, a) ==
    Cardinality({<<i, j>> \in ExportsOf(k) \X (1..Len(TimestampAttributes)) :
                    /\ j <= Len(timelineRes.emitted[i].lines)
                    /\ timelineRes.emitted[i].lines[j] = a})

\* C17: a timeline export that completes has projected every in-scope
\* record: through the timestamp set of its type when its object-type id is
\* the record id of a supported type, through the generic fallback when the
\* id is absent or belongs to no supported type; no record is dropped.
C17_DispatchOnType ==
    timelineRes.kind = "ok" =>
        \A k \in InScope :
            /\ ExportsOf(k) # {}
            /\ \A i \in ExportsOf(k) :
                  timelineRes.emitted[i].via = ProjectionOf(table, k)

\* C18 as stated: without the all-objects mode only records of a supported
\* type get lines; with it a completed export covers the records of every
\* type definition under the schema anchor.
C18_ScopeFollowsMode ==
    /\ ~timelineReq.all =>
          \A i \in 1..Len(timelineRes.emitted) :
              timelineRes.emitted[i].lines # <<>> =>
                  timelineRes.emitted[i].at \in RowsOfSupportedTypes(table)
    /\ (timelineReq.all /\ timelineRes.kind = "ok") =>
          \A k \in RowsOfAnyType(table) : ExportsOf(k) # {}

\* C18, amended: without the all-objects mode and without the deleted
\* objects, only records of a supported type get lines; with the
\* all-objects mode a completed export covers the records of every type
\* definition under the schema anchor.
C18_ScopeFollowsModeLive ==
    /\ (~timelineReq.all /\ ~timelineReq.deleted) =>
          \A i \in 1..Len(timelineRes.emitted) :
              timelineRes.emitted[i].lines # <<>> =>
                  timelineRes.emitted[i].at \in RowsOfSupportedTypes(table)
    /\ (timelineReq.all /\ timelineRes.kind = "ok") =>
          \A k \in RowsOfAnyType(table) : ExportsOf(k) # {}

\* an export of the supported types only, without the deleted objects: it
\* has lines, and it left out a record of another type that has timestamps
C18_Witness ==
    /\ timelineReq.fn = "DataTable::show_timeline"
    /\ ~timelineReq.all /\ ~timelineReq.deleted
    /\ timelineRes.kind = "ok"
    /\ \E i \in 1..Len(timelineRes.emitted) : timelineRes.emitted[i].lines # <<>>
    /\ \E k \in RowsOfAnyType(table) \ RowsOfSupportedTypes(table) :
          table[k].stamps # {} /\ ExportsOf(k) = {}

\* C19: a timeline export that completes has exactly one line for every
\* in-scope record and every timestamp attribute of its projection that
\* the record has, and no line for an attribute the record lacks.
C19_OneLinePerStamp ==
    timelineRes.kind = "ok" =>
        \A k \in InScope : \A j \in 1..Len(TimestampAttributes) :
            LET a == TimestampAttributes[j]
            IN  LinesFor(k, a) =
                    IF a \in table[k].stamps /\ a \in TimestampSet(ProjectionOf(table, k))
                    THEN 1 ELSE 0

\* C20: in a deleted-inclusive export that completes, a record that is a
\* child of the deleted-objects container and is back-referenced to it is
\* exported exactly once in the whole export, whatever its type.
C20_DeletedOnce ==
    (timelineRes.kind = "ok" /\ timelineReq.deleted) =>
        \A k \in DeletedChildren(table) \cap DeletedBackReferenced(table) :
            Cardinality(ExportsOf(k)) = 1

-----------------------------------------------------------------------------
(* Security descriptors: properties *)

\* the blob the descriptor table holds for an id: that of the last row
\* with the id
StoredBlob(rows, sd_id) ==
    LET at == {k \in 1..Len(rows) : rows[k].sd_id.v = sd_id}
    IN  rows[CHOOSE k \in at : \A j \in at : j <= k].sd_value.v

\* the accepted variants of the two cells
SdIdVariants == {"I16", "I32", "I64", "Currency"}
SdValueVariants == {"Long", "Binary", "LargeBinary"}

\* C21: building the descriptor table never aborts the process on a row
\* whose id or value cell has an unexpected variant; descriptor(id) returns
\* nothing when no row has that id, the fully decoded descriptor when the
\* stored blob decodes, and otherwise an error with the blob's base64 form
\* reported and no part of a decoded structure.
C21_DescriptorLookup ==
    /\ sdBuilt.kind = "panic" =>
          \A k \in 1..Len(table) :
              table[k].readable =>
                  /\ table[k].sd_id.variant \in SdIdVariants
                  /\ table[k].sd_value.variant \in SdValueVariants
    /\ sdRes.kind = "none" <=>
          (sdRes # SdNotAsked /\ \A k \in 1..Len(table) : table[k].sd_id.v # sdReq)
    /\ sdRes.kind = "ok" =>
          /\ StoredBlob(table, sdReq) = <<sdRes.revision>> \o sdRes.body
          /\ sdRes.logged = <<>>
    /\ sdRes.kind = "err" =>
          /\ sdRes.logged = Base64Encode(StoredBlob(table, sdReq))
          /\ sdRes.body = <<>>

-----------------------------------------------------------------------------
(* DataTable wrapper: properties *)

\* what DataTable::new stored: the record index, the schema anchor id, the
\* object tree, the link table and the resolved schema
Wrapper == <<table, schema_record_id, object_tree, link_table, schema>>

\* the same method with the same arguments
SameQuery(a, b) == [a EXCEPT !.seed = 0] = [b EXCEPT !.seed = 0]

\* the number of times x occurs in seq
Occurrences(seq, x) == Cardinality({i \in 1..Len(seq) : seq[i] = x})

\* two answers to the same query that differ at most in what follows the
\* order of a hash table: the order of the search columns after the fixed
\* prefix, and the order of the lines of a timeline that completed
SameUpToHashOrder(fn, a, b) ==
    CASE fn = "search_entries" ->
           /\ a.kind = b.kind
           /\ Len(a.header) = Len(b.header)
           /\ Range(a.header) = Range(b.header)
           /\ Len(a.rows) = Len(b.rows)
           /\ \A r \in 1..Len(a.rows) :
                 /\ a.rows[r].at = b.rows[r].at
                 /\ \A c, d \in 1..Len(a.header) :
                       a.header[c] = b.header[d] =>
                           a.rows[r].cells[c] = b.rows[r].cells[d]
      [] fn = "show_timeline" ->
           /\ a.kind = b.kind
           /\ a.kind = "ok" =>
                 /\ Len(a.emitted) = Len(b.emitted)
                 /\ \A i \in 1..Len(a.emitted) :
                       Occurrences(a.emitted, a.emitted[i])
                           = Occurrences(b.emitted, a.emitted[i])
      [] OTHER -> a = b

\* C22 as stated: no query changes what the wrapper holds, and the same
\* query asked again returns the same result.
C22_QueriesReadOnly ==
    /\ [][Wrapper' = Wrapper]_vars
    /\ [](SameQuery(lastReq, firstReq) => lastRes = firstRes)

\* C22, amended: no query changes what the wrapper holds, and the same
\* query asked again returns the same result up to the order of the search
\* columns after the fixed prefix and the order of the timeline's lines.
C22_QueriesReadOnlyUpToOrder ==
    /\ [][Wrapper' = Wrapper]_vars
    /\ [](SameQuery(lastReq, firstReq) =>
              SameUpToHashOrder(lastReq.fn, lastRes, firstRes))

\* a search asked a second time whose answer has the same rows and columns
\* as the first, the columns in another order
C22_Witness ==
    /\ lastReq.fn = "search_entries"
    /\ SameQuery(lastReq, firstReq)
    /\ lastRes.kind = "ok"
    /\ lastRes.rows # <<>>
    /\ lastRes.header # firstRes.header

=============================================================================
